---------------------------- MODULE Spec2Model ----------------------------
(***************************************************************************)
(* Model of the freight-shipment tracker's domain core and of the request  *)
(* handlers that use it:                                                   *)
(*   - the shipment status classes and StatusFactory                       *)
(*     (server/src/classes/index.ts),                                      *)
(*   - the shipment routes POST /, PUT /:id and POST /assign               *)
(*     (server/src/routes/reports.ts),                                     *)
(*   - the weather classes and WeatherFactory                              *)
(*     (server/src/classes/Report.ts),                                     *)
(*   - OpenWeatherService.getRouteImpact (unnamed/part_003),               *)
(*   - Flight.calculateETA (unnamed/part_000) and calculateETA of the      *)
(*     shipment page (client/src/pages/ShipmentDetail.tsx),                *)
(*   - the report classes and ReportFactory (server/src/classes/Report.ts),*)
(*   - the great-circle distance of Vehicle.distanceTo                     *)
(*     (server/src/classes/index.ts) and of the shipment page,             *)
(*   - the weather-impact route and its one-hour reuse of stored rows      *)
(*     (server/src/services/reportService.ts),                             *)
(*   - PUT /:id and POST /assign when requests for one shipment overlap.   *)
(*                                                                         *)
(* JavaScript strings that the code inspects character by character        *)
(* (toLowerCase) are sequences of one-character strings.  A JavaScript     *)
(* value that may be undefined, null or a string is a record [t, s].       *)
(* Delay factors are kept in hundredths (0.15 is 15).                      *)
(***************************************************************************)
EXTENDS Integers, Sequences, FiniteSets, TLC

VARIABLES
    query,        \* last StatusFactory query: its arguments and both answers
    current,      \* the ShipmentStatus object of the lifecycle under test
    accepted,     \* answer to the last status transition request
    shipment,     \* the row of table shipments (Absent before POST /)
    events,       \* rows of table tracking_events of the shipment, in order
    assignments,  \* number of rows of table shipment_assignments
    response,     \* last HTTP response of a shipment route
    reading,      \* the input of the weather operation: API data or constructor arguments
    weather,      \* the WeatherCondition object built from it (NotBuilt before)
    verdict,      \* the object's toJSON(): type, impact, delayFactor, shouldGround
    route,        \* the API key flag and, per route point, the API's response
    routeImpact,  \* the value getRouteImpact resolved to (NoRouteImpact before)
    trip,         \* the input of the ETA computations: flight, destination, weather
    flightEta,    \* the value Flight.calculateETA returned (NotComputed before)
    projection,   \* the value the shipment page's calculateETA returned
    report,       \* the Report object: its fields and its encoding
    output,       \* the value the last generate() resolved to
    metadata,     \* the value the last getMetadata() returned
    calls,        \* number of generate()/getMetadata() calls made on the report
    order,        \* the arguments of one ReportFactory.createReport call
    created,      \* what that call returned or threw (NotCreated before)
    naming,       \* how one status object is asked for: factory or constructor, name, reason
    made,         \* the object made, its getStatusName() and toJSON() (NotMade before)
    positions,    \* two positions a and b, in degrees
    distances,    \* the great-circle distances computed between them, per implementation
    clock,        \* the time, in minutes
    weatherImpacts, \* batches of rows of table weather_impacts of the shipment, in order
    weatherData,  \* number of rows of table weather_data
    requests,     \* per GET /impact/:shipmentId request: position in the handler and locals
    handlers,     \* per overlapping shipment request: position in the handler and locals
    path          \* the status names a lifecycle has taken, in order

statusVars   == <<query, current, accepted>>
shipmentVars == <<shipment, events, assignments, response>>
weatherVars  == <<reading, weather, verdict>>
routeVars    == <<route, routeImpact>>
etaVars      == <<trip, flightEta, projection>>
reportVars   == <<report, output, metadata, calls>>
factoryVars  == <<order, created>>
namingVars   == <<naming, made>>
distanceVars == <<positions, distances>>
impactVars   == <<clock, weatherImpacts, weatherData, requests>>
extraVars    == <<factoryVars, namingVars, distanceVars, impactVars, handlers, path>>
vars == <<query, current, accepted, shipment, events, assignments, response,
          reading, weather, verdict, route, routeImpact, trip, flightEta,
          projection, report, output, metadata, calls, order, created,
          naming, made, positions, distances, clock, weatherImpacts, weatherData,
          requests, handlers, path>>

---------------------------------------------------------------------------
(* JavaScript values                                                       *)

Undefined == [t |-> "undefined", s |-> <<>>]
Null      == [t |-> "null", s |-> <<>>]
Str(x)    == [t |-> "string", s |-> x]

\* JavaScript truthiness of undefined / null / a string
Truthy(v) == v.t = "string" /\ v.s # <<>>

UpperChars == <<"A","B","C","D","E","F","G","H","I","J","K","L","M",
                "N","O","P","Q","R","S","T","U","V","W","X","Y","Z">>
LowerChars == <<"a","b","c","d","e","f","g","h","i","j","k","l","m",
                "n","o","p","q","r","s","t","u","v","w","x","y","z">>

LowerChar(c) ==
    IF \E i \in 1..Len(UpperChars) : UpperChars[i] = c
    THEN LowerChars[CHOOSE i \in 1..Len(UpperChars) : UpperChars[i] = c]
    ELSE c

\* String.prototype.toLowerCase
toLowerCase(x) == [i \in 1..Len(x) |-> LowerChar(x[i])]

\* Array.prototype.includes on an array of strings, for any searched value
includes(list, v) == v.t = "string" /\ \E i \in 1..Len(list) : list[i] = v.s

---------------------------------------------------------------------------
(* Shipment status classes (server/src/classes/index.ts)                   *)

pending    == <<"p","e","n","d","i","n","g">>
departed   == <<"d","e","p","a","r","t","e","d">>
in_transit == <<"i","n","_","t","r","a","n","s","i","t">>
arrived    == <<"a","r","r","i","v","e","d">>
delayed    == <<"d","e","l","a","y","e","d">>
cancelled  == <<"c","a","n","c","e","l","l","e","d">>

getValidStatuses == <<pending, departed, in_transit, arrived, delayed, cancelled>>

\* optional constructor argument `reason`: NoReason is an omitted argument
NoReason == "<omitted>"

PendingStatus   == [cls |-> "PendingStatus", statusName |-> pending]
DepartedStatus  == [cls |-> "DepartedStatus", statusName |-> departed]
InTransitStatus == [cls |-> "InTransitStatus", statusName |-> in_transit]
ArrivedStatus   == [cls |-> "ArrivedStatus", statusName |-> arrived]
DelayedStatus(reason) ==
    [cls |-> "DelayedStatus", statusName |-> delayed,
     reason |-> IF reason = NoReason THEN "Unknown reason" ELSE reason]
CancelledStatus(reason) ==
    [cls |-> "CancelledStatus", statusName |-> cancelled,
     cancelReason |-> IF reason = NoReason THEN "No reason provided" ELSE reason]

\* the exception thrown by createStatus (or by toLowerCase on a non-string)
ThrownError == [cls |-> "Error"]

Mut_canTransitionTo_InTransitToCancelled(status, nextStatus) ==
    CASE status.cls = "PendingStatus"   -> includes(<<departed, cancelled>>, nextStatus)
      [] status.cls = "DepartedStatus"  -> includes(<<in_transit, delayed, cancelled>>, nextStatus)
      [] status.cls = "InTransitStatus" -> includes(<<arrived, delayed, cancelled>>, nextStatus)
      [] status.cls = "ArrivedStatus"   -> FALSE
      [] status.cls = "DelayedStatus"   ->
             includes(<<departed, in_transit, arrived, cancelled>>, nextStatus)
      [] status.cls = "CancelledStatus" -> FALSE

Mut_canTransitionTo_ArrivedReopens(status, nextStatus) ==
    CASE status.cls = "PendingStatus"   -> includes(<<departed, cancelled>>, nextStatus)
      [] status.cls = "DepartedStatus"  -> includes(<<in_transit, delayed, cancelled>>, nextStatus)
      [] status.cls = "InTransitStatus" -> includes(<<arrived, delayed>>, nextStatus)
      [] status.cls = "ArrivedStatus"   -> includes(<<delayed>>, nextStatus)
      [] status.cls = "DelayedStatus"   ->
             includes(<<departed, in_transit, arrived, cancelled>>, nextStatus)
      [] status.cls = "CancelledStatus" -> FALSE

Mut_canTransitionTo_InTransitToDeparted(status, nextStatus) ==
    CASE status.cls = "PendingStatus"   -> includes(<<departed, cancelled>>, nextStatus)
      [] status.cls = "DepartedStatus"  -> includes(<<in_transit, delayed, cancelled>>, nextStatus)
      [] status.cls = "InTransitStatus" -> includes(<<departed, arrived, delayed>>, nextStatus)
      [] status.cls = "ArrivedStatus"   -> FALSE
      [] status.cls = "DelayedStatus"   ->
             includes(<<departed, in_transit, arrived, cancelled>>, nextStatus)
      [] status.cls = "CancelledStatus" -> FALSE

Mut_canTransitionTo_DelayedToPending(status, nextStatus) ==
    CASE status.cls = "PendingStatus"   -> includes(<<departed, cancelled>>, nextStatus)
      [] status.cls = "DepartedStatus"  -> includes(<<in_transit, delayed, cancelled>>, nextStatus)
      [] status.cls = "InTransitStatus" -> includes(<<arrived, delayed>>, nextStatus)
      [] status.cls = "ArrivedStatus"   -> FALSE
      [] status.cls = "DelayedStatus"   ->
             includes(<<pending, departed, in_transit, arrived, cancelled>>, nextStatus)
      [] status.cls = "CancelledStatus" -> FALSE

\* canTransitionTo of the six subclasses, dispatched on the object's class
canTransitionTo(status, nextStatus) ==
    CASE status.cls = "PendingStatus"   -> includes(<<departed, cancelled>>, nextStatus)
      [] status.cls = "DepartedStatus"  -> includes(<<in_transit, delayed, cancelled>>, nextStatus)
      [] status.cls = "InTransitStatus" -> includes(<<arrived, delayed>>, nextStatus)
      [] status.cls = "ArrivedStatus"   -> FALSE
      [] status.cls = "DelayedStatus"   ->
             includes(<<departed, in_transit, arrived, cancelled>>, nextStatus)
      [] status.cls = "CancelledStatus" -> FALSE

Mut_createStatus_CaseSensitive(statusType, reason) ==
    IF statusType.t # "string" THEN ThrownError
    ELSE LET name == statusType.s IN
         CASE name = pending    -> PendingStatus
           [] name = departed   -> DepartedStatus
           [] name = in_transit -> InTransitStatus
           [] name = arrived    -> ArrivedStatus
           [] name = delayed    -> DelayedStatus(reason)
           [] name = cancelled  -> CancelledStatus(reason)
           [] OTHER             -> ThrownError

\* StatusFactory.createStatus; statusType is a JavaScript value
createStatus(statusType, reason) ==
    IF statusType.t # "string" THEN ThrownError
    ELSE LET name == toLowerCase(statusType.s) IN
         CASE name = pending    -> PendingStatus
           [] name = departed   -> DepartedStatus
           [] name = in_transit -> InTransitStatus
           [] name = arrived    -> ArrivedStatus
           [] name = delayed    -> DelayedStatus(reason)
           [] name = cancelled  -> CancelledStatus(reason)
           [] OTHER             -> ThrownError

\* StatusFactory.isValidTransition: the boolean, or the exception of createStatus
isValidTransition(currentStatus, newStatus) ==
    LET status == createStatus(currentStatus, NoReason) IN
    IF status.cls = "Error"
    THEN [threw |-> TRUE, value |-> FALSE]
    ELSE [threw |-> FALSE, value |-> canTransitionTo(status, newStatus)]

---------------------------------------------------------------------------
(* Inputs of the status operations                                         *)

StatusNames == {getValidStatuses[i] : i \in 1..Len(getValidStatuses)}

\* status strings a caller may pass: the six names, other letter cases,
\* an unknown name and the empty string
StatusStrings ==
    StatusNames \cup
    { <<"P","E","N","D","I","N","G">>, <<"A","r","r","i","v","e","d">>,
      <<"C","a","n","c","e","l","l","e","d">>,
      <<"i","n","v","a","l","i","d">>, <<>> }

Reasons == {NoReason, "Weather conditions"}

\* one call of isValidTransition(s, t) beside createStatus(s).canTransitionTo(t)
RunQuery(s, t) ==
    LET status == createStatus(Str(s), NoReason) IN
    [currentStatus |-> s, newStatus |-> t,
     valid |-> isValidTransition(Str(s), Str(t)),
     can |-> IF status.cls = "Error"
             THEN [threw |-> TRUE, value |-> FALSE]
             ELSE [threw |-> FALSE, value |-> canTransitionTo(status, Str(t))]]

CheckTransition(s, t) ==
    /\ query' = RunQuery(s, t)
    /\ UNCHANGED <<current, accepted, shipmentVars, weatherVars, routeVars, etaVars, reportVars, extraVars>>

\* A status transition request {currentStatus, requestedStatus, reason?}:
\* accepted exactly when the current status object allows it, and then the
\* new status object is created by name.
TransitionRequest(requested, reason) ==
    LET ok == canTransitionTo(current, Str(requested)) IN
    /\ accepted' = ok
    /\ current' = IF ok THEN createStatus(Str(requested), reason) ELSE current
    /\ UNCHANGED <<query, shipmentVars, weatherVars, routeVars, etaVars, reportVars, extraVars>>

\* longest lifecycle followed, in statuses
MaxPath == 6

\* A lifecycle followed from its first status on: a transition request as
\* above, each accepted status appended to the path.
LifecycleRequest(requested, reason) ==
    LET ok == canTransitionTo(current, Str(requested)) IN
    /\ path # <<>>
    /\ Len(path) < MaxPath
    /\ accepted' = ok
    /\ current' = IF ok THEN createStatus(Str(requested), reason) ELSE current
    /\ path' = IF ok THEN Append(path, requested) ELSE path
    /\ UNCHANGED <<query, shipmentVars, weatherVars, routeVars, etaVars, reportVars,
                   factoryVars, namingVars, distanceVars, impactVars, handlers>>

---------------------------------------------------------------------------
(* The status object: getters and toJSON (server/src/classes/index.ts)     *)

getStatusName(status) == status.statusName

\* the description the subclass constructor hands to super(); a template
\* literal is the sequence of its pieces
getDescription(status) ==
    CASE status.cls = "PendingStatus"   -> <<"Shipment awaiting assignment to flight">>
      [] status.cls = "DepartedStatus"  -> <<"Shipment has departed from origin">>
      [] status.cls = "InTransitStatus" -> <<"Shipment is currently in transit">>
      [] status.cls = "ArrivedStatus"   -> <<"Shipment has arrived at destination">>
      [] status.cls = "DelayedStatus"   -> <<"Shipment delayed: ", status.reason>>
      [] status.cls = "CancelledStatus" -> <<"Shipment cancelled: ", status.cancelReason>>

getStatusColor(status) ==
    CASE status.cls = "PendingStatus"   -> "yellow"
      [] status.cls = "DepartedStatus"  -> "blue"
      [] status.cls = "InTransitStatus" -> "indigo"
      [] status.cls = "ArrivedStatus"   -> "green"
      [] status.cls = "DelayedStatus"   -> "red"
      [] status.cls = "CancelledStatus" -> "gray"

\* the icons are emoji, named here by their code points
getStatusIcon(status) ==
    CASE status.cls = "PendingStatus"   -> "U+23F3"
      [] status.cls = "DepartedStatus"  -> "U+2708 U+FE0F"
      [] status.cls = "InTransitStatus" -> "U+1F680"
      [] status.cls = "ArrivedStatus"   -> "U+2705"
      [] status.cls = "DelayedStatus"   -> "U+26A0 U+FE0F"
      [] status.cls = "CancelledStatus" -> "U+274C"

getPriority(status) ==
    CASE status.cls = "PendingStatus"   -> 2
      [] status.cls = "DepartedStatus"  -> 3
      [] status.cls = "InTransitStatus" -> 4
      [] status.cls = "ArrivedStatus"   -> 5
      [] status.cls = "DelayedStatus"   -> 1
      [] status.cls = "CancelledStatus" -> 6

\* ShipmentStatus.toJSON of the base class; the timestamp is the instant of
\* construction in ISO spelling
ShipmentStatus_toJSON(status) ==
    [name |-> status.statusName,
     timestamp |-> "2024-12-01T10:00:00.000Z",
     description |-> getDescription(status),
     color |-> getStatusColor(status),
     icon |-> getStatusIcon(status),
     priority |-> getPriority(status)]

\* { ...base, key: value }
Spread(base, key, value) ==
    [k \in DOMAIN base \cup {key} |-> IF k = key THEN value ELSE base[k]]

\* toJSON, dispatched on the object's class: DelayedStatus and
\* CancelledStatus override it
toJSON(status) ==
    CASE status.cls = "DelayedStatus" ->
             Spread(ShipmentStatus_toJSON(status), "reason", status.reason)
      [] status.cls = "CancelledStatus" ->
             Spread(ShipmentStatus_toJSON(status), "cancelReason", status.cancelReason)
      [] OTHER -> ShipmentStatus_toJSON(status)

UpperChar(c) ==
    IF \E i \in 1..Len(LowerChars) : LowerChars[i] = c
    THEN UpperChars[CHOOSE i \in 1..Len(LowerChars) : LowerChars[i] = c]
    ELSE c

\* the spellings of a status name a caller may use
Spellings(x) ==
    {x, [i \in 1..Len(x) |-> UpperChar(x[i])],
        [i \in 1..Len(x) |-> IF i = 1 THEN UpperChar(x[i]) ELSE x[i]]}

\* the argument statusType: the six names in three letter cases, names that
\* are not status names, and values that are not strings
StatusTypes ==
    {Str(x) : x \in UNION {Spellings(n) : n \in StatusNames}}
    \cup {Str(<<"i","n","v","a","l","i","d">>), Str(<<>>),
          Str(<<"p","e","n","d","i","n">>), Str(<<"p","e","n","d","i","n","g"," ">>),
          Str(<<"i","n","-","t","r","a","n","s","i","t">>),
          Str(<<"I","N","T","R","A","N","S","I","T">>), Null, Undefined}

\* the optional argument reason: omitted, a text, the empty text
SuppliedReasons == {NoReason, "Bad weather", ""}

StatusClasses == {"PendingStatus", "DepartedStatus", "InTransitStatus", "ArrivedStatus",
                  "DelayedStatus", "CancelledStatus"}

Namings ==
    {[via |-> "createStatus", statusType |-> t, cls |-> "", reason |-> r] :
        t \in StatusTypes, r \in SuppliedReasons}
    \cup {[via |-> "new", statusType |-> Undefined, cls |-> c, reason |-> r] :
             c \in StatusClasses, r \in SuppliedReasons}

NoNaming == [via |-> "none", statusType |-> Undefined, cls |-> "", reason |-> NoReason]
NoStatus == [cls |-> "none"]
NoJson   == [name |-> <<>>]
NotMade  == [called |-> FALSE, threw |-> FALSE, status |-> NoStatus,
             statusName |-> <<>>, json |-> NoJson]

\* what the caller sees of the object a call returned, or of its exception
Observe(status) ==
    IF status = ThrownError
    THEN [called |-> TRUE, threw |-> TRUE, status |-> NoStatus,
          statusName |-> <<>>, json |-> NoJson]
    ELSE [called |-> TRUE, threw |-> FALSE, status |-> status,
          statusName |-> getStatusName(status), json |-> toJSON(status)]

\* StatusFactory.createStatus(statusType, reason)
FactoryCreateStatus ==
    /\ naming.via = "createStatus"
    /\ ~made.called
    /\ made' = Observe(createStatus(naming.statusType, naming.reason))
    /\ UNCHANGED <<naming, statusVars, shipmentVars, weatherVars, routeVars, etaVars,
                   reportVars, factoryVars, distanceVars, impactVars, handlers, path>>

\* new PendingStatus() ... new CancelledStatus(reason)
ConstructStatus ==
    /\ naming.via = "new"
    /\ ~made.called
    /\ made' = Observe(CASE naming.cls = "PendingStatus"   -> PendingStatus
                         [] naming.cls = "DepartedStatus"  -> DepartedStatus
                         [] naming.cls = "InTransitStatus" -> InTransitStatus
                         [] naming.cls = "ArrivedStatus"   -> ArrivedStatus
                         [] naming.cls = "DelayedStatus"   -> DelayedStatus(naming.reason)
                         [] naming.cls = "CancelledStatus" -> CancelledStatus(naming.reason))
    /\ UNCHANGED <<naming, statusVars, shipmentVars, weatherVars, routeVars, etaVars,
                   reportVars, factoryVars, distanceVars, impactVars, handlers, path>>

---------------------------------------------------------------------------
(* Shipment routes (server/src/routes/reports.ts)                          *)

MaxEvents == 4
MaxWrites == 4
MaxAssignments == 2

Absent == [exists |-> FALSE, status |-> Null, writes |-> 0]

NoResponse == [op |-> "none", code |-> 0, status |-> Undefined]

\* values of the `status` key of a PUT body: key absent, null, or a string
UpdateStatuses == {Undefined, Null} \cup {Str(x) : x \in StatusStrings}

\* POST /api/shipments.  insertOk: the shipments insert succeeds;
\* eventOk: the tracking_events insert succeeds (its result is not read).
PostCreate(insertOk, eventOk) ==
    /\ ~shipment.exists
    /\ IF ~insertOk
       THEN /\ response' = [op |-> "POST /", code |-> 500, status |-> Undefined]
            /\ UNCHANGED <<shipment, events>>
       ELSE /\ shipment' = [exists |-> TRUE, status |-> Str(pending), writes |-> 1]
            /\ events' = IF eventOk THEN Append(events, Str(pending)) ELSE events
            /\ response' = [op |-> "POST /", code |-> 201, status |-> Undefined]
    /\ UNCHANGED <<assignments, statusVars, weatherVars, routeVars, etaVars, reportVars, extraVars>>

\* PUT /:id, the guard of lines 626-634: TRUE when the handler goes on to
\* the update, FALSE when it answers 400.  Called only when createStatus
\* does not throw.
PutValidated(existing, updates) ==
    IF Truthy(updates) /\ updates # existing
    THEN canTransitionTo(createStatus(existing, NoReason), updates)
    ELSE TRUE

\* PUT /api/shipments/:id with body `updates`, of which updates.status matters.
\* fetchOk, updateOk, eventOk: outcome of the three database calls.
PutUpdate(status, fetchOk, updateOk, eventOk) ==
    /\ Len(events) < MaxEvents
    /\ shipment.writes < MaxWrites
    /\ UNCHANGED <<assignments, statusVars, weatherVars, routeVars, etaVars, reportVars, extraVars>>
    /\ IF ~shipment.exists \/ ~fetchOk
       THEN /\ response' = [op |-> "PUT", code |-> 404, status |-> status]
            /\ UNCHANGED <<shipment, events>>
       ELSE IF /\ Truthy(status) /\ status # shipment.status
               /\ createStatus(shipment.status, NoReason).cls = "Error"
       THEN /\ response' = [op |-> "PUT", code |-> 500, status |-> status]
            /\ UNCHANGED <<shipment, events>>
       ELSE IF ~PutValidated(shipment.status, status)
       THEN /\ response' = [op |-> "PUT", code |-> 400, status |-> status]
            /\ UNCHANGED <<shipment, events>>
       ELSE IF ~updateOk
       THEN /\ response' = [op |-> "PUT", code |-> 500, status |-> status]
            /\ UNCHANGED <<shipment, events>>
       ELSE /\ shipment' = [shipment EXCEPT
                               !.status = IF status = Undefined THEN @ ELSE status,
                               !.writes = @ + 1]
            /\ events' = IF Truthy(status) /\ eventOk
                         THEN Append(events, status) ELSE events
            /\ response' = [op |-> "PUT", code |-> 200, status |-> status]

\* POST /assign.  bodyOk: shipmentId and flightIcao24 are given; flightFound:
\* the flight lookup answers; assignOk, updateOk, eventOk: database outcomes.
PostAssign(bodyOk, fetchOk, flightFound, assignOk, updateOk, eventOk) ==
    /\ Len(events) < MaxEvents
    /\ shipment.writes < MaxWrites
    /\ assignments < MaxAssignments
    /\ UNCHANGED <<statusVars, weatherVars, routeVars, etaVars, reportVars, extraVars>>
    /\ IF ~bodyOk
       THEN /\ response' = [op |-> "POST /assign", code |-> 400, status |-> Undefined]
            /\ UNCHANGED <<shipment, events, assignments>>
       ELSE IF ~shipment.exists \/ ~fetchOk \/ ~flightFound
       THEN /\ response' = [op |-> "POST /assign", code |-> 404, status |-> Undefined]
            /\ UNCHANGED <<shipment, events, assignments>>
       ELSE IF ~assignOk
       THEN /\ response' = [op |-> "POST /assign", code |-> 500, status |-> Undefined]
            /\ UNCHANGED <<shipment, events, assignments>>
       ELSE /\ assignments' = assignments + 1
            /\ response' = [op |-> "POST /assign", code |-> 200, status |-> Undefined]
            /\ IF shipment.status = Str(pending)
               THEN /\ shipment' = IF updateOk
                                   THEN [shipment EXCEPT !.status = Str(departed),
                                                         !.writes = @ + 1]
                                   ELSE shipment
                    /\ events' = IF eventOk THEN Append(events, Str(departed))
                                 ELSE events
               ELSE UNCHANGED <<shipment, events>>

---------------------------------------------------------------------------
(* Shipment routes, overlapping requests (server/src/routes/reports.ts)    *)
(*                                                                         *)
(* PUT /:id and POST /assign run from one `await` on the database to the   *)
(* next; up to MaxHandlers requests for the same shipment are in progress  *)
(* at a time.  A handler that has answered is free for the next request.   *)

MaxHandlers == 2
\* a request starts while fewer than this many rows were written or inserted
MaxOverlapWrites == 3

Free == [pc |-> "free", status |-> Undefined, existing |-> Undefined]

\* the `status` key of the bodies of the overlapping PUT requests: absent,
\* a status name, or an unknown name
OverlapStatuses ==
    {Undefined, Str(<<"i","n","v","a","l","i","d">>)} \cup {Str(x) : x \in StatusNames}

Answer(r, op, code, status) ==
    /\ response' = [op |-> op, code |-> code, status |-> status]
    /\ handlers' = [handlers EXCEPT ![r] = Free]

\* PUT /:id, lines 614-634: select the stored status, answer 404 when the
\* row is not found, and validate the transition against the status read
PutSelect(r, status, fetchOk) ==
    /\ handlers[r].pc = "free"
    /\ shipment.exists
    /\ Len(events) < MaxOverlapWrites
    /\ shipment.writes < MaxOverlapWrites
    /\ UNCHANGED <<shipment, events, assignments>>
    /\ UNCHANGED <<statusVars, weatherVars, routeVars, etaVars, reportVars, factoryVars,
                   namingVars, distanceVars, impactVars, path>>
    /\ IF ~fetchOk
       THEN Answer(r, "PUT", 404, status)
       ELSE IF /\ Truthy(status) /\ status # shipment.status
               /\ createStatus(shipment.status, NoReason).cls = "Error"
       THEN Answer(r, "PUT", 500, status)
       ELSE IF ~PutValidated(shipment.status, status)
       THEN Answer(r, "PUT", 400, status)
       ELSE /\ handlers' = [handlers EXCEPT ![r] =
                               [pc |-> "update", status |-> status,
                                existing |-> shipment.status]]
            /\ UNCHANGED response

\* PUT /:id, lines 637-650: update the row with the body
PutUpdateRow(r, updateOk) ==
    /\ handlers[r].pc = "update"
    /\ UNCHANGED <<events, assignments>>
    /\ UNCHANGED <<statusVars, weatherVars, routeVars, etaVars, reportVars, factoryVars,
                   namingVars, distanceVars, impactVars, path>>
    /\ IF ~updateOk
       THEN /\ Answer(r, "PUT", 500, handlers[r].status)
            /\ UNCHANGED shipment
       ELSE /\ shipment' = [shipment EXCEPT
                               !.status = IF handlers[r].status = Undefined THEN @
                                          ELSE handlers[r].status,
                               !.writes = @ + 1]
            /\ IF Truthy(handlers[r].status)
               THEN /\ handlers' = [handlers EXCEPT ![r].pc = "event"]
                    /\ UNCHANGED response
               ELSE Answer(r, "PUT", 200, handlers[r].status)

\* PUT /:id, lines 653-664: insert the tracking event and answer
PutInsertEvent(r, eventOk) ==
    /\ handlers[r].pc = "event"
    /\ events' = IF eventOk THEN Append(events, handlers[r].status) ELSE events
    /\ Answer(r, "PUT", 200, handlers[r].status)
    /\ UNCHANGED <<shipment, assignments>>
    /\ UNCHANGED <<statusVars, weatherVars, routeVars, etaVars, reportVars, factoryVars,
                   namingVars, distanceVars, impactVars, path>>

\* POST /assign up to the flight lookup: select the shipment, find the flight
AssignSelect(r, bodyOk, fetchOk, flightFound) ==
    /\ handlers[r].pc = "free"
    /\ shipment.exists
    /\ Len(events) < MaxOverlapWrites
    /\ shipment.writes < MaxOverlapWrites
    /\ assignments < MaxAssignments
    /\ UNCHANGED <<shipment, events, assignments>>
    /\ UNCHANGED <<statusVars, weatherVars, routeVars, etaVars, reportVars, factoryVars,
                   namingVars, distanceVars, impactVars, path>>
    /\ IF ~bodyOk
       THEN Answer(r, "POST /assign", 400, Undefined)
       ELSE IF ~fetchOk \/ ~flightFound
       THEN Answer(r, "POST /assign", 404, Undefined)
       ELSE /\ handlers' = [handlers EXCEPT ![r] =
                               [pc |-> "assign", status |-> Undefined,
                                existing |-> shipment.status]]
            /\ UNCHANGED response

\* POST /assign, lines 344-355: insert the assignment
AssignInsert(r, assignOk) ==
    /\ handlers[r].pc = "assign"
    /\ UNCHANGED <<shipment, events>>
    /\ UNCHANGED <<statusVars, weatherVars, routeVars, etaVars, reportVars, factoryVars,
                   namingVars, distanceVars, impactVars, path>>
    /\ IF ~assignOk
       THEN /\ Answer(r, "POST /assign", 500, Undefined)
            /\ UNCHANGED assignments
       ELSE /\ assignments' = assignments + 1
            /\ IF handlers[r].existing = Str(pending)
               THEN /\ handlers' = [handlers EXCEPT ![r].pc = "depart"]
                    /\ UNCHANGED response
               ELSE Answer(r, "POST /assign", 200, Undefined)

\* POST /assign, lines 358-365: set the status to departed
AssignUpdateRow(r, updateOk) ==
    /\ handlers[r].pc = "depart"
    /\ shipment' = IF updateOk
                   THEN [shipment EXCEPT !.status = Str(departed), !.writes = @ + 1]
                   ELSE shipment
    /\ handlers' = [handlers EXCEPT ![r].pc = "departed"]
    /\ UNCHANGED <<events, assignments, response>>
    /\ UNCHANGED <<statusVars, weatherVars, routeVars, etaVars, reportVars, factoryVars,
                   namingVars, distanceVars, impactVars, path>>

\* POST /assign, lines 368-383: insert the tracking event and answer
AssignInsertEvent(r, eventOk) ==
    /\ handlers[r].pc = "departed"
    /\ events' = IF eventOk THEN Append(events, Str(departed)) ELSE events
    /\ Answer(r, "POST /assign", 200, Undefined)
    /\ UNCHANGED <<shipment, assignments>>
    /\ UNCHANGED <<statusVars, weatherVars, routeVars, etaVars, reportVars, factoryVars,
                   namingVars, distanceVars, impactVars, path>>

---------------------------------------------------------------------------
(* Weather classes and WeatherFactory (server/src/classes/Report.ts)       *)

\* an optional JavaScript number: undefined, or a number
NoNumber == [t |-> "undefined", n |-> 0]
Num(n)   == [t |-> "number", n |-> n]

\* `v || d` for an optional number v: d when v is undefined or 0
OrDefault(v, d) == IF v.t = "number" /\ v.n # 0 THEN v.n ELSE d

\* a default parameter `p = d`: d when the argument is undefined
ParamDefault(v, d) == IF v.t = "number" THEN v.n ELSE d

ImpactLevel == <<"none", "low", "medium", "high", "critical">>

\* Array.prototype.indexOf: the zero-based position of v in list, -1 if absent
indexOf(list, v) ==
    IF \E i \in 1..Len(list) : list[i] = v
    THEN (CHOOSE i \in 1..Len(list) : list[i] = v /\ \A j \in 1..(i - 1) : list[j] # v) - 1
    ELSE -1

ClearWeather(temp, wind, humidity) ==
    [cls |-> "ClearWeather", temperature |-> temp, windSpeed |-> wind,
     humidity |-> ParamDefault(humidity, 50)]

CloudyWeather(temp, wind, humidity, cloudCoverage) ==
    [cls |-> "CloudyWeather", temperature |-> temp, windSpeed |-> wind,
     humidity |-> humidity, cloudCoverage |-> cloudCoverage]

RainWeather(temp, wind, humidity, intensity) ==
    [cls |-> "RainWeather", temperature |-> temp, windSpeed |-> wind,
     humidity |-> humidity, intensity |-> intensity]

StormWeather(temp, wind, humidity, severity, hasLightning) ==
    [cls |-> "StormWeather", temperature |-> temp, windSpeed |-> wind,
     humidity |-> humidity, severity |-> severity, hasLightning |-> hasLightning]

FogWeather(temp, wind, humidity, visibility) ==
    [cls |-> "FogWeather", temperature |-> temp, windSpeed |-> wind,
     humidity |-> humidity, visibility |-> visibility]

SnowWeather(temp, wind, humidity, intensity, accumulation) ==
    [cls |-> "SnowWeather", temperature |-> temp, windSpeed |-> wind,
     humidity |-> humidity, intensity |-> intensity,
     accumulation |-> ParamDefault(accumulation, 0)]

\* ---- ClearWeather
ClearWeather_assessImpact(w) == IF w.windSpeed > 15 THEN "low" ELSE "none"

ClearWeather_getDelayFactor(w) == IF w.windSpeed > 15 THEN 5 ELSE 0

Mut_ClearWeather_shouldGroundFlights_AtLeast25(w) == w.windSpeed >= 25

ClearWeather_shouldGroundFlights(w) == w.windSpeed > 25

\* ---- CloudyWeather
CloudyWeather_assessImpact(w) ==
    IF w.cloudCoverage > 90 /\ w.windSpeed > 10 THEN "low" ELSE "none"

CloudyWeather_getDelayFactor(w) == IF w.cloudCoverage > 90 THEN 5 ELSE 0

CloudyWeather_shouldGroundFlights(w) == FALSE

\* ---- RainWeather
RainWeather_assessImpact(w) ==
    IF w.intensity = "heavy" THEN "medium"
    ELSE IF w.intensity = "moderate" THEN "low"
    ELSE "none"

RainWeather_getDelayFactor(w) ==
    IF w.intensity = "heavy" THEN 20
    ELSE IF w.intensity = "moderate" THEN 10
    ELSE 5

Mut_RainWeather_shouldGroundFlights_AnyWind(w) == w.intensity = "heavy"

RainWeather_shouldGroundFlights(w) == w.intensity = "heavy" /\ w.windSpeed > 15

\* ---- StormWeather
Mut_StormWeather_assessImpact_NoLightning(w) ==
    IF w.severity = "severe" THEN "critical"
    ELSE IF w.severity = "moderate" THEN "high"
    ELSE "medium"

StormWeather_assessImpact(w) ==
    IF w.severity = "severe" \/ w.hasLightning THEN "critical"
    ELSE IF w.severity = "moderate" THEN "high"
    ELSE "medium"

StormWeather_getDelayFactor(w) ==
    IF w.severity = "severe" THEN 50
    ELSE IF w.severity = "moderate" THEN 30
    ELSE 15

StormWeather_shouldGroundFlights(w) == w.severity = "severe" \/ w.hasLightning

\* ---- FogWeather
FogWeather_assessImpact(w) ==
    IF w.visibility < 200 THEN "critical"
    ELSE IF w.visibility < 500 THEN "high"
    ELSE IF w.visibility < 1000 THEN "medium"
    ELSE IF w.visibility < 2000 THEN "low"
    ELSE "none"

Mut_FogWeather_getDelayFactor_Inclusive(w) ==
    IF w.visibility <= 200 THEN 60
    ELSE IF w.visibility <= 500 THEN 40
    ELSE IF w.visibility <= 1000 THEN 25
    ELSE IF w.visibility <= 2000 THEN 15
    ELSE 5

FogWeather_getDelayFactor(w) ==
    IF w.visibility < 200 THEN 60
    ELSE IF w.visibility < 500 THEN 40
    ELSE IF w.visibility < 1000 THEN 25
    ELSE IF w.visibility < 2000 THEN 15
    ELSE 5

Mut_FogWeather_shouldGroundFlights_Below1000(w) == w.visibility < 1000

FogWeather_shouldGroundFlights(w) == w.visibility < 200

\* ---- SnowWeather
Mut_SnowWeather_assessImpact_NoAccumulation(w) ==
    IF w.intensity = "heavy" THEN "high"
    ELSE IF w.intensity = "moderate" THEN "medium"
    ELSE "low"

SnowWeather_assessImpact(w) ==
    IF w.intensity = "heavy" \/ w.accumulation > 5 THEN "high"
    ELSE IF w.intensity = "moderate" THEN "medium"
    ELSE "low"

Mut_SnowWeather_getDelayFactor_Heavy140(w) ==
    IF w.intensity = "heavy" THEN 140
    ELSE IF w.intensity = "moderate" THEN 25
    ELSE 10

SnowWeather_getDelayFactor(w) ==
    IF w.intensity = "heavy" THEN 40
    ELSE IF w.intensity = "moderate" THEN 25
    ELSE 10

SnowWeather_shouldGroundFlights(w) == w.intensity = "heavy" /\ w.accumulation > 5

\* ---- the abstract methods of WeatherCondition, dispatched on the class
assessImpact(w) ==
    CASE w.cls = "ClearWeather"  -> ClearWeather_assessImpact(w)
      [] w.cls = "CloudyWeather" -> CloudyWeather_assessImpact(w)
      [] w.cls = "RainWeather"   -> RainWeather_assessImpact(w)
      [] w.cls = "StormWeather"  -> StormWeather_assessImpact(w)
      [] w.cls = "FogWeather"    -> FogWeather_assessImpact(w)
      [] w.cls = "SnowWeather"   -> SnowWeather_assessImpact(w)

getDelayFactor(w) ==
    CASE w.cls = "ClearWeather"  -> ClearWeather_getDelayFactor(w)
      [] w.cls = "CloudyWeather" -> CloudyWeather_getDelayFactor(w)
      [] w.cls = "RainWeather"   -> RainWeather_getDelayFactor(w)
      [] w.cls = "StormWeather"  -> StormWeather_getDelayFactor(w)
      [] w.cls = "FogWeather"    -> FogWeather_getDelayFactor(w)
      [] w.cls = "SnowWeather"   -> SnowWeather_getDelayFactor(w)

shouldGroundFlights(w) ==
    CASE w.cls = "ClearWeather"  -> ClearWeather_shouldGroundFlights(w)
      [] w.cls = "CloudyWeather" -> CloudyWeather_shouldGroundFlights(w)
      [] w.cls = "RainWeather"   -> RainWeather_shouldGroundFlights(w)
      [] w.cls = "StormWeather"  -> StormWeather_shouldGroundFlights(w)
      [] w.cls = "FogWeather"    -> FogWeather_shouldGroundFlights(w)
      [] w.cls = "SnowWeather"   -> SnowWeather_shouldGroundFlights(w)

getConditionType(w) ==
    CASE w.cls = "ClearWeather"  -> "clear"
      [] w.cls = "CloudyWeather" -> "cloudy"
      [] w.cls = "RainWeather"   -> "rain"
      [] w.cls = "StormWeather"  -> "storm"
      [] w.cls = "FogWeather"    -> "fog"
      [] w.cls = "SnowWeather"   -> "snow"

\* WeatherCondition.toJSON (description, summary and timestamp left out)
WeatherCondition_toJSON(w) ==
    [type |-> getConditionType(w),
     temperature |-> w.temperature,
     windSpeed |-> w.windSpeed,
     humidity |-> w.humidity,
     impact |-> assessImpact(w),
     delayFactor |-> getDelayFactor(w),
     shouldGround |-> shouldGroundFlights(w)]

Mut_createFromApiData_SnowIncludes700(data) ==
    LET weatherId  == OrDefault(data.weatherId, 800)
        temp       == data.temp
        wind       == data.wind_speed
        humidity   == data.humidity
        visibility == OrDefault(data.visibility, 10000)
        clouds     == OrDefault(data.clouds, 0)
    IN
    IF weatherId >= 200 /\ weatherId < 300
    THEN StormWeather(temp, wind, humidity,
                      IF weatherId >= 212 THEN "severe"
                      ELSE IF weatherId >= 211 THEN "moderate" ELSE "light",
                      weatherId >= 210)
    ELSE IF weatherId >= 300 /\ weatherId < 600
    THEN RainWeather(temp, wind, humidity,
                     IF weatherId >= 502 THEN "heavy"
                     ELSE IF weatherId >= 500 THEN "moderate" ELSE "light")
    ELSE IF weatherId >= 600 /\ weatherId <= 700
    THEN SnowWeather(temp, wind, humidity,
                     IF weatherId >= 622 THEN "heavy"
                     ELSE IF weatherId >= 600 THEN "moderate" ELSE "light",
                     NoNumber)
    ELSE IF weatherId >= 700 /\ weatherId < 800
    THEN FogWeather(temp, wind, humidity, visibility)
    ELSE IF weatherId = 800
    THEN ClearWeather(temp, wind, Num(humidity))
    ELSE CloudyWeather(temp, wind, humidity, clouds)

Mut_createFromApiData_SnowHeavyFrom621(data) ==
    LET weatherId  == OrDefault(data.weatherId, 800)
        temp       == data.temp
        wind       == data.wind_speed
        humidity   == data.humidity
        visibility == OrDefault(data.visibility, 10000)
        clouds     == OrDefault(data.clouds, 0)
    IN
    IF weatherId >= 200 /\ weatherId < 300
    THEN StormWeather(temp, wind, humidity,
                      IF weatherId >= 212 THEN "severe"
                      ELSE IF weatherId >= 211 THEN "moderate" ELSE "light",
                      weatherId >= 210)
    ELSE IF weatherId >= 300 /\ weatherId < 600
    THEN RainWeather(temp, wind, humidity,
                     IF weatherId >= 502 THEN "heavy"
                     ELSE IF weatherId >= 500 THEN "moderate" ELSE "light")
    ELSE IF weatherId >= 600 /\ weatherId < 700
    THEN SnowWeather(temp, wind, humidity,
                     IF weatherId >= 621 THEN "heavy"
                     ELSE IF weatherId >= 600 THEN "moderate" ELSE "light",
                     NoNumber)
    ELSE IF weatherId >= 700 /\ weatherId < 800
    THEN FogWeather(temp, wind, humidity, visibility)
    ELSE IF weatherId = 800
    THEN ClearWeather(temp, wind, Num(humidity))
    ELSE CloudyWeather(temp, wind, humidity, clouds)

\* WeatherFactory.createFromApiData; data.weatherId is data.weather?.[0]?.id
createFromApiData(data) ==
    LET weatherId  == OrDefault(data.weatherId, 800)
        temp       == data.temp
        wind       == data.wind_speed
        humidity   == data.humidity
        visibility == OrDefault(data.visibility, 10000)
        clouds     == OrDefault(data.clouds, 0)
    IN
    IF weatherId >= 200 /\ weatherId < 300
    THEN StormWeather(temp, wind, humidity,
                      IF weatherId >= 212 THEN "severe"
                      ELSE IF weatherId >= 211 THEN "moderate" ELSE "light",
                      weatherId >= 210)
    ELSE IF weatherId >= 300 /\ weatherId < 600
    THEN RainWeather(temp, wind, humidity,
                     IF weatherId >= 502 THEN "heavy"
                     ELSE IF weatherId >= 500 THEN "moderate" ELSE "light")
    ELSE IF weatherId >= 600 /\ weatherId < 700
    THEN SnowWeather(temp, wind, humidity,
                     IF weatherId >= 622 THEN "heavy"
                     ELSE IF weatherId >= 600 THEN "moderate" ELSE "light",
                     NoNumber)
    ELSE IF weatherId >= 700 /\ weatherId < 800
    THEN FogWeather(temp, wind, humidity, visibility)
    ELSE IF weatherId = 800
    THEN ClearWeather(temp, wind, Num(humidity))
    ELSE CloudyWeather(temp, wind, humidity, clouds)

NoReading == [kind |-> "none"]
NotBuilt  == [cls |-> "none"]
NoVerdict == [type |-> "none"]

---------------------------------------------------------------------------
(* Inputs of the weather operations                                        *)

MaxWind == 30
MaxCode == 1000
MaxAccumulation == 7

Temps       == {-5, 25}
Humidities  == {0, 65}
Winds       == 0..MaxWind
Intensities == {"light", "moderate", "heavy"}
Severities  == {"light", "moderate", "severe"}
Coverages   == {0, 50, 90, 91, 100}
\* visibilities in meters, on both sides of every threshold of FogWeather
Visibilities == {0, 1, 199, 200, 201, 499, 500, 501, 999, 1000, 1001,
                 1999, 2000, 2001, 10000}
Accumulations == {NoNumber} \cup {Num(a) : a \in 0..MaxAccumulation}

\* condition codes on both sides of every threshold of createFromApiData
BoundaryCodes == {1, 100, 199, 200, 201, 209, 210, 211, 212, 213, 299, 300, 301,
                  499, 500, 501, 502, 599, 600, 601, 621, 622, 699, 700, 741,
                  799, 800, 801, 803, 899, 900}

\* API data: every code 0..MaxCode (or none) with a few other values, and the
\* boundary codes with every combination of the optional fields
ApiReadings ==
    [kind : {"api"}, temp : {25}, wind_speed : {5, 20}, humidity : {65},
     visibility : {NoNumber, Num(150)}, clouds : {NoNumber, Num(95)},
     weatherId : {NoNumber} \cup {Num(c) : c \in 0..MaxCode}]
    \cup
    [kind : {"api"}, temp : Temps, wind_speed : {0, 10, 11, 15, 16, 25, 26},
     humidity : Humidities,
     visibility : {NoNumber} \cup {Num(v) : v \in {0, 199, 200, 499, 500, 999, 1000, 1999, 2000}},
     clouds : {NoNumber} \cup {Num(c) : c \in {0, 90, 91}},
     weatherId : {Num(c) : c \in BoundaryCodes}]

\* constructor arguments of the six classes
ConstructorArgs ==
    [kind : {"ClearWeather"}, temp : Temps, wind : Winds,
     humidity : {NoNumber} \cup {Num(h) : h \in Humidities}]
    \cup
    [kind : {"CloudyWeather"}, temp : Temps, wind : Winds, humidity : Humidities,
     cloudCoverage : Coverages]
    \cup
    [kind : {"RainWeather"}, temp : Temps, wind : Winds, humidity : Humidities,
     intensity : Intensities]
    \cup
    [kind : {"StormWeather"}, temp : Temps, wind : Winds, humidity : Humidities,
     severity : Severities, hasLightning : BOOLEAN]
    \cup
    [kind : {"FogWeather"}, temp : Temps, wind : Winds, humidity : Humidities,
     visibility : Visibilities]
    \cup
    [kind : {"SnowWeather"}, temp : Temps, wind : Winds, humidity : Humidities,
     intensity : Intensities, accumulation : Accumulations]

\* the object is built once from the input, and serialized
Build(w) ==
    /\ weather = NotBuilt
    /\ weather' = w
    /\ verdict' = WeatherCondition_toJSON(w)
    /\ UNCHANGED <<reading, statusVars, shipmentVars, routeVars, etaVars, reportVars, extraVars>>

FactoryCreate ==
    /\ reading.kind = "api"
    /\ Build(createFromApiData(reading))

NewClearWeather ==
    /\ reading.kind = "ClearWeather"
    /\ Build(ClearWeather(reading.temp, reading.wind, reading.humidity))

NewCloudyWeather ==
    /\ reading.kind = "CloudyWeather"
    /\ Build(CloudyWeather(reading.temp, reading.wind, reading.humidity,
                                         reading.cloudCoverage))

NewRainWeather ==
    /\ reading.kind = "RainWeather"
    /\ Build(RainWeather(reading.temp, reading.wind, reading.humidity,
                                     reading.intensity))

NewStormWeather ==
    /\ reading.kind = "StormWeather"
    /\ Build(StormWeather(reading.temp, reading.wind, reading.humidity,
                                       reading.severity, reading.hasLightning))

NewFogWeather ==
    /\ reading.kind = "FogWeather"
    /\ Build(FogWeather(reading.temp, reading.wind, reading.humidity,
                                   reading.visibility))

NewSnowWeather ==
    /\ reading.kind = "SnowWeather"
    /\ Build(SnowWeather(reading.temp, reading.wind, reading.humidity,
                                     reading.intensity, reading.accumulation))

---------------------------------------------------------------------------
(* OpenWeatherService: the weather along a route                           *)

\* a request that threw (network error, timeout, non-2xx answer)
RequestFailed == [kind |-> "failed"]
\* the null that getWeatherByCoords returns instead of a WeatherCondition
NullCondition == [cls |-> "null"]

\* n / d of two integers, d > 0, as a fraction in lowest terms
RECURSIVE gcd(_, _)
gcd(a, b) == IF b = 0 THEN a ELSE gcd(b, a % b)
Quotient(n, d) == LET g == gcd(d, n) IN [num |-> n \div g, den |-> d \div g]

getWeatherByCoords(apiKey, answer) ==
    IF ~apiKey THEN NullCondition
    ELSE IF answer.kind = "failed" THEN NullCondition
    ELSE createFromApiData(answer)

getRouteWeather(r) ==
    LET results == [i \in 1..Len(r.responses) |->
                        getWeatherByCoords(r.apiKey, r.responses[i])]
    IN SelectSeq(results, LAMBDA w : w.cls # "null")

impactOrder == <<"none", "low", "medium", "high", "critical">>

Mut_reduceMaxImpact_KeepsLast(impacts, max) ==
    IF impacts = <<>> THEN max ELSE impacts[Len(impacts)]

\* impacts.reduce((max, current) => ..., 'none')
RECURSIVE reduceMaxImpact(_, _)
reduceMaxImpact(impacts, max) ==
    IF impacts = <<>> THEN max
    ELSE reduceMaxImpact(Tail(impacts),
                         IF indexOf(impactOrder, Head(impacts)) > indexOf(impactOrder, max)
                         THEN Head(impacts) ELSE max)

\* conditions.reduce((sum, c) => sum + c.getDelayFactor(), 0)
RECURSIVE reduceSumDelay(_, _)
reduceSumDelay(conditions, sum) ==
    IF conditions = <<>> THEN sum
    ELSE reduceSumDelay(Tail(conditions), sum + getDelayFactor(Head(conditions)))

getRouteImpact(r) ==
    LET conditions == getRouteWeather(r)
        impacts    == [i \in 1..Len(conditions) |-> assessImpact(conditions[i])]
    IN
    IF Len(conditions) = 0
    THEN [maxImpact |-> "none", averageDelayFactor |-> Quotient(0, 1),
          conditions |-> <<>>]
    ELSE [maxImpact |-> reduceMaxImpact(impacts, "none"),
          averageDelayFactor |-> Quotient(reduceSumDelay(conditions, 0), Len(conditions)),
          conditions |-> conditions]

NoRoute       == [apiKey |-> FALSE, responses |-> <<>>]
NoRouteImpact == [maxImpact |-> "unresolved", averageDelayFactor |-> Quotient(0, 1),
                  conditions |-> <<>>]

MaxPoints == 3

\* API data of one reading per class and impact level
RouteReadings ==
    {[kind |-> "api", temp |-> 25, wind_speed |-> w, humidity |-> 65,
      visibility |-> Num(v), clouds |-> Num(95), weatherId |-> Num(c)] :
        <<c, w, v>> \in {<<800, 5, 10000>>, <<800, 20, 10000>>, <<803, 5, 10000>>,
                         <<500, 5, 10000>>, <<502, 5, 10000>>, <<200, 5, 10000>>,
                         <<211, 5, 10000>>, <<741, 5, 150>>}}

Routes ==
    [apiKey : BOOLEAN,
     responses : UNION {[1..n -> RouteReadings \cup {RequestFailed}] : n \in 0..MaxPoints}]

GetRouteImpact ==
    /\ routeImpact = NoRouteImpact
    /\ routeImpact' = getRouteImpact(route)
    /\ UNCHANGED <<route, statusVars, shipmentVars, weatherVars, etaVars, reportVars, extraVars>>

---------------------------------------------------------------------------
(* Flight.calculateETA and the shipment page's calculateETA                *)
(* Distances are whole kilometers and speeds whole meters per second; the  *)
(* speeds are such that distance / speed never falls on a half minute.     *)

Infinity == [t |-> "Infinity", n |-> 0]

\* truthiness of an optional number: null, undefined and 0 are falsy
TruthyNumber(v) == v.t = "number" /\ v.n # 0

\* Math.round(num / den) for num >= 0, den > 0: nearest integer, ties upward
MathRound(num, den) == (2 * num + den) \div (2 * den)

\* Flight.calculateETA; distanceKm is this.distanceTo(destLat, destLon), and
\* speedKmh = speed * 3.6 is speed * 36 tenths
Flight_calculateETA(speed, distanceKm) ==
    LET speedKmh10 == speed * 36
    IN IF speedKmh10 <= 0 THEN Infinity
       ELSE Num(MathRound(distanceKm * 600, speedKmh10))

\* weather of the page: null, or the origin's and the destination's verdict,
\* each null or carrying its delayFactor (hundredths); an origin verdict is
\* of type fog and a destination verdict of type rain
NullWeather == [present |-> FALSE, origin |-> NoNumber, destination |-> NoNumber]

Mut_getWeatherDelayFactor_SumsDelays(pageWeather) ==
    [factor |-> 100 + OrDefault(pageWeather.origin, 0) + OrDefault(pageWeather.destination, 0),
     reason |-> <<"Clear conditions">>, severity |-> "none"]

getWeatherDelayFactor(pageWeather) ==
    IF ~pageWeather.present
    THEN [factor |-> 100, reason |-> <<"No pageWeather data">>, severity |-> "none"]
    ELSE
    LET originDelay == OrDefault(pageWeather.origin, 0)
        destDelay   == OrDefault(pageWeather.destination, 0)
        maxDelay    == IF originDelay > destDelay THEN originDelay ELSE destDelay
        destType    == IF pageWeather.destination.t = "number" THEN "rain" ELSE ""
        originType  == IF pageWeather.origin.t = "number" THEN "fog" ELSE ""
    IN [factor |-> 100 + maxDelay,
        reason |->
            IF maxDelay >= 40
            THEN IF maxDelay = destDelay
                 THEN <<"Severe pageWeather at destination",
                        IF destType # "" THEN destType ELSE "storm">>
                 ELSE <<"Severe pageWeather at origin",
                        IF originType # "" THEN originType ELSE "storm">>
            ELSE IF maxDelay >= 20
            THEN IF maxDelay = destDelay
                 THEN <<"Poor pageWeather at destination",
                        IF destType # "" THEN destType ELSE "pageWeather">>
                 ELSE <<"Poor pageWeather at origin",
                        IF originType # "" THEN originType ELSE "pageWeather">>
            ELSE IF maxDelay >= 10 THEN <<"Moderate pageWeather conditions">>
            ELSE IF maxDelay > 0 THEN <<"Minor pageWeather impact">>
            ELSE <<"Clear conditions">>,
        severity |->
            IF maxDelay >= 40 THEN "critical"
            ELSE IF maxDelay >= 20 THEN "high"
            ELSE IF maxDelay >= 10 THEN "medium"
            ELSE IF maxDelay > 0 THEN "low"
            ELSE "none"]

\* pairs <<baseEtaMinutes, maxDelay>> whose exact product with 1 + maxDelay
\* ends in one half and whose double-precision product lies below it:
\* 50 * (1 + 0.15) is 57.49999999999999 in IEEE-754 doubles
DoubleProductBelowHalf ==
    {<<50, 15>>, <<90, 15>>, <<110, 15>>, <<170, 15>>, <<190, 15>>, <<210, 15>>,
     <<330, 15>>, <<350, 15>>, <<370, 15>>, <<390, 15>>}

\* Math.round(baseEtaMinutes * factor) in doubles, factor in hundredths
MathRoundProduct(baseEtaMinutes, factor) ==
    LET product == baseEtaMinutes * factor
    IN IF product % 100 = 50 /\ <<baseEtaMinutes, factor - 100>> \in DoubleProductBelowHalf
       THEN product \div 100
       ELSE (product + 50) \div 100

\* etaTime: null, or new Date(Date.now() + adjustedMinutes * 60 * 1000)
NoDate == [t |-> "null", n |-> 0]
MinutesFromNow(m) == [t |-> "date", n |-> m]

NullProjection == [result |-> "null"]
NotComputed    == [result |-> "none"]

\* calculateETA of the shipment page; distanceKm is calculateDistance(...)
calculateETA(t) ==
    IF ~t.flight.assigned \/ ~TruthyNumber(t.dest_lat) \/ ~TruthyNumber(t.dest_lon)
    THEN NullProjection
    ELSE
    LET speedKmh10 == t.flight.speed * 36
    IN IF speedKmh10 <= 0
       THEN [result |-> "eta", distanceKm |-> t.distanceKm,
             baseEtaMinutes |-> Infinity, etaMinutes |-> Infinity,
             etaTime |-> NoDate,
             weatherDelay |-> [factor |-> 100, reason |-> <<"No weather data">>,
                               severity |-> "none", addedMinutes |-> 0]]
       ELSE
       LET baseEtaMinutes  == MathRound(t.distanceKm * 600, speedKmh10)
           weatherDelay    == getWeatherDelayFactor(t.weather)
           adjustedMinutes == MathRoundProduct(baseEtaMinutes, weatherDelay.factor)
           addedMinutes    == adjustedMinutes - baseEtaMinutes
       IN [result |-> "eta", distanceKm |-> t.distanceKm,
           baseEtaMinutes |-> Num(baseEtaMinutes), etaMinutes |-> Num(adjustedMinutes),
           etaTime |-> MinutesFromNow(adjustedMinutes),
           weatherDelay |-> [factor |-> weatherDelay.factor,
                             reason |-> weatherDelay.reason,
                             severity |-> weatherDelay.severity,
                             addedMinutes |-> addedMinutes]]

MaxDistance == 12

NoFlight == [assigned |-> FALSE, speed |-> 0]
Speeds   == {-5, 0, 1, 10, 250}
Flights  == {NoFlight} \cup [assigned : {TRUE}, speed : Speeds]
Coordinates == {NoNumber, Num(0), Num(40)}
Delays   == {NoNumber} \cup {Num(m) : m \in {0, 5, 15, 60, 100}}
Weathers == {NullWeather} \cup [present : {TRUE}, origin : Delays, destination : Delays]
Trips ==
    [flight : Flights, dest_lat : Coordinates, dest_lon : Coordinates,
     distanceKm : 0..MaxDistance, weather : Weathers]
NoTrip == [flight |-> NoFlight, dest_lat |-> NoNumber, dest_lon |-> NoNumber,
           distanceKm |-> 0, weather |-> NullWeather]

FlightCalculateETA ==
    /\ trip.flight.assigned
    /\ flightEta = NotComputed
    /\ flightEta' = [result |-> "eta",
                     minutes |-> Flight_calculateETA(trip.flight.speed, trip.distanceKm)]
    /\ UNCHANGED <<trip, projection, statusVars, shipmentVars, weatherVars, routeVars,
                   reportVars, extraVars>>

PageCalculateETA ==
    /\ projection = NotComputed
    /\ projection' = calculateETA(trip)
    /\ UNCHANGED <<trip, flightEta, statusVars, shipmentVars, weatherVars, routeVars,
                   reportVars, extraVars>>

---------------------------------------------------------------------------
(* Report, CSVReport, JSONReport, HTMLReport and ReportFactory             *)
(* A text is a sequence of tokens: a one-character token is that           *)
(* character, a longer token the run of characters of that spelling (a     *)
(* piece of a template literal, a formatted date).  Template whitespace    *)
(* is left out.                                                            *)

quote == "\""

\* a cell of a data row, row[col.key]
CellNull      == [t |-> "null", s |-> <<>>, n |-> 0]
CellUndefined == [t |-> "undefined", s |-> <<>>, n |-> 0]
CellString(s) == [t |-> "string", s |-> s, n |-> 0]
CellNumber(n) == [t |-> "number", s |-> <<>>, n |-> n]
CellDate(d)   == [t |-> "date", s |-> <<>>, n |-> d]

\* String(n) of a natural number: its decimal digits
Digit(d) == <<"0", "1", "2", "3", "4", "5", "6", "7", "8", "9">>[d + 1]
RECURSIVE NumberToString(_)
NumberToString(n) ==
    IF n < 10 THEN <<Digit(n)>> ELSE NumberToString(n \div 10) \o <<Digit(n % 10)>>

\* Date values are numbered instants; each formatter has its own spelling
toISOString(d) ==
    IF d = 1 THEN "2024-12-01T10:00:00.000Z" ELSE "2024-12-02T15:00:00.000Z"
toLocaleString(d) ==
    IF d = 1 THEN "December 1, 2024 at 10:00:00 AM" ELSE "December 2, 2024 at 03:00:00 PM"
toLocaleDateString(d) == IF d = 1 THEN "12/1/2024" ELSE "12/2/2024"

NoDateRange == [present |-> FALSE, start |-> 0, end |-> 0]

\* constructor of Report, reached through the subclass named by type
Report(type, config, data, now) ==
    [type |-> type,
     title |-> config.title,
     subtitle |-> IF config.subtitle # <<>> THEN config.subtitle ELSE <<>>,
     columns |-> config.columns,
     dateRange |-> config.dateRange,
     generatedAt |-> now,
     data |-> data]

Mut_createReport_DefaultsToCsv(type, config, data, now) ==
    IF type \in {"json", "html"} THEN Report(type, config, data, now)
    ELSE Report("csv", config, data, now)

\* ReportFactory.createReport
createReport(type, config, data, now) ==
    IF type \in {"csv", "json", "html"} THEN Report(type, config, data, now)
    ELSE ThrownError

formatTimestamp(r) == <<toLocaleString(r.generatedAt)>>

formatDateRange(r) ==
    IF ~r.dateRange.present THEN <<>>
    ELSE <<"Date Range: ", toLocaleDateString(r.dateRange.start), " - ",
           toLocaleDateString(r.dateRange.end)>>

\* row[col.key]; a key the row lacks reads undefined
CellOf(row, key) == IF key \in DOMAIN row THEN row[key] ELSE CellUndefined

Report_getMetadata(r) ==
    [title |-> r.title,
     subtitle |-> r.subtitle,
     generatedAt |-> toISOString(r.generatedAt),
     rowCount |-> Len(r.data),
     columnCount |-> Len(r.columns),
     columns |-> [j \in 1..Len(r.columns) |-> r.columns[j].header]]

\* parts.join(sep)
RECURSIVE join(_, _)
join(parts, sep) ==
    IF parts = <<>> THEN <<>>
    ELSE IF Len(parts) = 1 THEN parts[1]
    ELSE parts[1] \o sep \o join(Tail(parts), sep)

\* value.replace(/"/g, '""')
RECURSIVE replaceQuotes(_)
replaceQuotes(s) ==
    IF s = <<>> THEN <<>>
    ELSE (IF Head(s) = quote THEN <<quote, quote>> ELSE <<Head(s)>>)
         \o replaceQuotes(Tail(s))

\* the quoted field of one cell of a CSV data row
CSVReport_value(value) ==
    IF value.t \in {"null", "undefined"} THEN <<quote, quote>>
    ELSE IF value.t = "string" THEN <<quote>> \o replaceQuotes(value.s) \o <<quote>>
    ELSE IF value.t = "date" THEN <<quote, toISOString(value.n), quote>>
    ELSE <<quote>> \o NumberToString(value.n) \o <<quote>>

\* CSVReport.generate: the text it resolves to, and the object afterwards
CSVReport_generate(r) ==
    LET head  == << <<quote>> \o r.title \o <<quote>>,
                    <<quote, "Generated: ">> \o formatTimestamp(r) \o <<quote>> >>
        range == IF r.dateRange.present
                 THEN << <<quote>> \o formatDateRange(r) \o <<quote>> >> ELSE <<>>
        headers == join([j \in 1..Len(r.columns) |->
                            <<quote>> \o r.columns[j].header \o <<quote>>],
                        <<",">>)
        rows  == [i \in 1..Len(r.data) |->
                    join([j \in 1..Len(r.columns) |->
                            CSVReport_value(CellOf(r.data[i], r.columns[j].key))],
                         <<",">>)]
        foot  == << <<>>,
                    <<quote, "Total Rows: ">> \o NumberToString(Len(r.data)) \o <<quote>> >>
        lines == head \o range \o << <<>>, headers >> \o rows \o foot
    IN [result |-> [type |-> "csv", text |-> join(lines, <<"\n">>)], this |-> r]

\* JSON.stringify of one data row, read back: properties whose value is
\* undefined are dropped and a Date becomes its ISO string
JSONReport_row(row) ==
    [k \in {key \in DOMAIN row : row[key].t # "undefined"} |->
        IF row[k].t = "date" THEN CellString(<<toISOString(row[k].n)>>) ELSE row[k]]

\* JSONReport.generate: the document JSON.parse reads from the text it
\* resolves to, and the object afterwards
JSONReport_generate(r) ==
    LET doc ==
          [metadata |->
              [title |-> r.title,
               subtitle |-> r.subtitle,
               generatedAt |-> formatTimestamp(r),
               dateRange |-> IF r.dateRange.present THEN Str(formatDateRange(r)) ELSE Null,
               totalRows |-> Len(r.data),
               totalColumns |-> Len(r.columns)],
           columns |-> [j \in 1..Len(r.columns) |->
                          [key |-> r.columns[j].key, header |-> r.columns[j].header]],
           data |-> [i \in 1..Len(r.data) |-> JSONReport_row(r.data[i])]]
    IN [result |-> [type |-> "json", doc |-> doc], this |-> r]

\* String(value) of a Date, as a template literal interpolates it
Date_toString(d) ==
    IF d = 1 THEN "Sun Dec 01 2024 10:00:00 GMT+0000" ELSE "Mon Dec 02 2024 15:00:00 GMT+0000"

\* `${value ?? ''}`
HTMLReport_value(value) ==
    IF value.t \in {"null", "undefined"} THEN <<>>
    ELSE IF value.t = "string" THEN value.s
    ELSE IF value.t = "date" THEN <<Date_toString(value.n)>>
    ELSE NumberToString(value.n)

\* seqs.join('')
RECURSIVE concat(_)
concat(seqs) == IF seqs = <<>> THEN <<>> ELSE Head(seqs) \o concat(Tail(seqs))

Mut_HTMLReport_generate_ShiftsRows(r) ==
    [result |-> [type |-> "html", text |-> r.title],
     this |-> [r EXCEPT !.data = IF r.data = <<>> THEN <<>> ELSE Tail(r.data)]]

\* HTMLReport.generate: the markup it resolves to, and the object afterwards
HTMLReport_generate(r) ==
    LET ths  == concat([j \in 1..Len(r.columns) |->
                    <<"<th>">> \o r.columns[j].header \o <<"</th>">>])
        trs  == concat([i \in 1..Len(r.data) |->
                    <<"<tr>">>
                    \o concat([j \in 1..Len(r.columns) |->
                          <<"<td>">> \o HTMLReport_value(CellOf(r.data[i], r.columns[j].key))
                                     \o <<"</td>">>])
                    \o <<"</tr>">>])
        html ==
          <<"<!DOCTYPE html>", "<html>", "<head>", "<meta charset=\"UTF-8\">", "<title>">>
          \o r.title
          \o <<"</title>", "<style>", "</style>", "</head>", "<body>", "<h1>">>
          \o r.title
          \o <<"</h1>">>
          \o (IF r.subtitle # <<>> THEN <<"<h2>">> \o r.subtitle \o <<"</h2>">> ELSE <<>>)
          \o <<"<div class=\"meta\">", "<p>", "Generated: ">>
          \o formatTimestamp(r)
          \o <<"</p>">>
          \o (IF r.dateRange.present THEN <<"<p>">> \o formatDateRange(r) \o <<"</p>">>
              ELSE <<>>)
          \o <<"</div>", "<table>", "<thead>", "<tr>">>
          \o ths
          \o <<"</tr>", "</thead>", "<tbody>">>
          \o trs
          \o <<"</tbody>", "</table>", "<div class=\"footer\">", "<p>", "Total Rows: ">>
          \o NumberToString(Len(r.data))
          \o <<"</p>", "</div>", "</body>", "</html>">>
    IN [result |-> [type |-> "html", text |-> html], this |-> r]

\* generate(), dispatched on the class of the report
generate(r) ==
    CASE r.type = "csv"  -> CSVReport_generate(r)
      [] r.type = "json" -> JSONReport_generate(r)
      [] r.type = "html" -> HTMLReport_generate(r)

NoReport   == [type |-> "none"]
NoOutput   == [type |-> "none"]
NoMetadata == [title |-> <<>>, subtitle |-> <<>>, generatedAt |-> "", rowCount |-> 0,
               columnCount |-> 0, columns |-> <<>>]
NoCalls    == [generate |-> 0, getMetadata |-> 0]

MaxRows    == 2
MaxColumns == 2
MaxCalls   == 2

Titles    == {<<"T">>, <<"T", quote>>}
\* the columns a configuration takes a prefix of; the first header varies
ColumnList(h) ==
    <<[key |-> "k1", header |-> h], [key |-> "k2", header |-> <<"B">>],
      [key |-> "k3", header |-> <<"C">>], [key |-> "k4", header |-> <<"D">>]>>
DateRanges == {NoDateRange, [present |-> TRUE, start |-> 1, end |-> 2]}
ReportConfigs ==
    {[title |-> t, subtitle |-> IF d.present THEN <<"S">> ELSE <<>>,
      columns |-> SubSeq(ColumnList(h), 1, n), dateRange |-> d] :
        t \in Titles, h \in {<<"H">>, <<quote, "H">>, <<"<th>">>}, n \in 0..MaxColumns,
        d \in DateRanges}
\* data rows, each with the keys k1 and k2
Rows ==
    {[k1 |-> c[1], k2 |-> c[2]] :
        c \in {<<CellString(<<"a">>), CellNumber(7)>>,
               <<CellString(<<"a", quote, ",">>), CellNull>>,
               <<CellString(<<"<tr>">>), CellUndefined>>,
               <<CellNull, CellDate(1)>>,
               <<CellString(<<>>), CellNumber(12)>>}}
ReportData == UNION {[1..n -> Rows] : n \in 0..MaxRows}

GenerateCSV ==
    /\ report.type = "csv"
    /\ calls.generate + calls.getMetadata < MaxCalls
    /\ output' = CSVReport_generate(report).result
    /\ report' = CSVReport_generate(report).this
    /\ calls' = [calls EXCEPT !.generate = @ + 1]
    /\ UNCHANGED <<metadata, statusVars, shipmentVars, weatherVars, routeVars, etaVars,
                   extraVars>>

GenerateJSON ==
    /\ report.type = "json"
    /\ calls.generate + calls.getMetadata < MaxCalls
    /\ output' = JSONReport_generate(report).result
    /\ report' = JSONReport_generate(report).this
    /\ calls' = [calls EXCEPT !.generate = @ + 1]
    /\ UNCHANGED <<metadata, statusVars, shipmentVars, weatherVars, routeVars, etaVars,
                   extraVars>>

GenerateHTML ==
    /\ report.type = "html"
    /\ calls.generate + calls.getMetadata < MaxCalls
    /\ output' = HTMLReport_generate(report).result
    /\ report' = HTMLReport_generate(report).this
    /\ calls' = [calls EXCEPT !.generate = @ + 1]
    /\ UNCHANGED <<metadata, statusVars, shipmentVars, weatherVars, routeVars, etaVars,
                   extraVars>>

GetMetadata ==
    /\ report.type # "none"
    /\ calls.generate + calls.getMetadata < MaxCalls
    /\ metadata' = Report_getMetadata(report)
    /\ calls' = [calls EXCEPT !.getMetadata = @ + 1]
    /\ UNCHANGED <<report, output, statusVars, shipmentVars, weatherVars, routeVars,
                   etaVars, extraVars>>

\* getFileExtension() and getMimeType() of the three subclasses
getFileExtension(r) ==
    CASE r.type = "csv"  -> "csv"
      [] r.type = "json" -> "json"
      [] r.type = "html" -> "html"

getMimeType(r) ==
    CASE r.type = "csv"  -> "text/csv"
      [] r.type = "json" -> "application/json"
      [] r.type = "html" -> "text/html"

\* format strings a caller may pass: the three formats, another letter case,
\* other formats and the empty string
Formats == {"csv", "json", "html", "CSV", "Html", "pdf", "xml", ""}

Orders ==
    {[format |-> f, config |-> c, data |-> d] :
        f \in Formats, c \in ReportConfigs, d \in {<<>>} \cup [1..1 -> Rows]}

NoOrder   == [format |-> "<none>",
              config |-> [title |-> <<>>, subtitle |-> <<>>, columns |-> <<>>,
                          dateRange |-> NoDateRange],
              data |-> <<>>]
NotCreated == [called |-> FALSE, threw |-> FALSE, report |-> NoReport,
              fileExtension |-> "", mimeType |-> ""]

\* one call of ReportFactory.createReport and, on the report it returns,
\* of getFileExtension and getMimeType
CreateReport ==
    /\ ~created.called
    /\ order # NoOrder
    /\ LET r == createReport(order.format, order.config, order.data, 1) IN
       created' = IF r = ThrownError
                  THEN [called |-> TRUE, threw |-> TRUE, report |-> NoReport,
                        fileExtension |-> "", mimeType |-> ""]
                  ELSE [called |-> TRUE, threw |-> FALSE, report |-> r,
                        fileExtension |-> getFileExtension(r),
                        mimeType |-> getMimeType(r)]
    /\ UNCHANGED <<order, statusVars, shipmentVars, weatherVars, routeVars, etaVars,
                   reportVars, namingVars, distanceVars, impactVars, handlers, path>>

---------------------------------------------------------------------------
(* Great-circle distance: Vehicle.distanceTo (server/src/classes/index.ts) *)
(* and calculateDistance (client/src/pages/ShipmentDetail.tsx)             *)
(*                                                                         *)
(* Angles are whole degrees.  Sines, cosines and the haversine term a are  *)
(* kept in ten-thousandths, rounded down; the distance is in whole         *)
(* kilometres.  Where the double-precision value of a leaves [0, 1] the    *)
(* square root of 1 - a is NaN, and so is the distance: those inputs are   *)
(* listed in HaversineAboveOne.                                            *)

NaN == [t |-> "NaN", n |-> 0]

\* Math.sin(toRad(d) / 2) for a difference d of two coordinates
SinHalf(d) ==
    LET m == IF d < 0 THEN -d ELSE d
        v == CASE m = 0   -> 0
               [] m = 12  -> 1045
               [] m = 24  -> 2079
               [] m = 78  -> 6293
               [] m = 90  -> 7071
               [] m = 102 -> 7771
               [] m = 180 -> 10000
               [] m = 270 -> 7071
               [] m = 360 -> 0
    IN IF d < 0 THEN -v ELSE v

\* Math.cos(toRad(lat))
Cos(lat) ==
    LET m == IF lat < 0 THEN -lat ELSE lat
    IN CASE m = 0  -> 10000
         [] m = 12 -> 9781
         [] m = 90 -> 0

\* 6371 * 2 * Math.atan2(Math.sqrt(a), Math.sqrt(1 - a)) for 0 <= a <= 1
ArcKm(a) ==
    CASE a = 0     -> 0
      [] a = 109   -> 1333
      [] a = 432   -> 2668
      [] a = 3960  -> 8673
      [] a = 4782  -> 9730
      [] a = 4998  -> 10005
      [] a = 4999  -> 10006
      [] a = 5214  -> 10280
      [] a = 6038  -> 11340
      [] a = 9566  -> 17341
      [] a = 9890  -> 18676
      [] a = 9998  -> 19835
      [] a = 10000 -> 20015

\* inputs <<lat1, lon1, lat2, lon2>> for which sin^2 + cos * cos * sin^2,
\* evaluated in doubles, is 1.0000000000000002
HaversineAboveOne ==
    {<<-12, -180, 12, 0>>, <<-12, -90, 12, 90>>, <<-12, 0, 12, -180>>,
     <<-12, 0, 12, 180>>, <<-12, 90, 12, -90>>, <<-12, 180, 12, 0>>,
     <<12, -180, -12, 0>>, <<12, -90, -12, 90>>, <<12, 0, -12, -180>>,
     <<12, 0, -12, 180>>, <<12, 90, -12, -90>>, <<12, 180, -12, 0>>}

\* the Haversine formula as both implementations write it
Haversine(lat1, lon1, lat2, lon2) ==
    LET sLat == SinHalf(lat2 - lat1)
        sLon == SinHalf(lon2 - lon1)
        a == (sLat * sLat) \div 10000
             + (((Cos(lat1) * Cos(lat2)) \div 10000) * ((sLon * sLon) \div 10000))
               \div 10000
    IN IF <<lat1, lon1, lat2, lon2>> \in HaversineAboveOne THEN NaN ELSE Num(ArcKm(a))

\* Vehicle.distanceTo(targetLat, targetLon) of a vehicle at `position`
distanceTo(position, targetLat, targetLon) ==
    Haversine(position.lat, position.lon, targetLat, targetLon)

\* calculateDistance of the shipment page
calculateDistance(lat1, lon1, lat2, lon2) == Haversine(lat1, lon1, lat2, lon2)

Latitudes  == {-90, -12, 0, 12, 90}
Longitudes == {-180, -90, 0, 90, 180}
Positions  == {[lat |-> la, lon |-> lo] : la \in Latitudes, lo \in Longitudes}

NoPositions == [a |-> [lat |-> 0, lon |-> 0], b |-> [lat |-> 0, lon |-> 0], given |-> FALSE]
NotMeasured == [measured |-> FALSE, ab |-> Num(0), ba |-> Num(0), aa |-> Num(0), bb |-> Num(0)]
NoDistances == [server |-> NotMeasured, client |-> NotMeasured]

\* a vehicle at a asked for the distance to b, one at b for the distance to
\* a, and each for the distance to its own position
VehicleDistanceTo ==
    /\ positions.given
    /\ ~distances.server.measured
    /\ distances' =
          [distances EXCEPT !.server =
              [measured |-> TRUE,
               ab |-> distanceTo(positions.a, positions.b.lat, positions.b.lon),
               ba |-> distanceTo(positions.b, positions.a.lat, positions.a.lon),
               aa |-> distanceTo(positions.a, positions.a.lat, positions.a.lon),
               bb |-> distanceTo(positions.b, positions.b.lat, positions.b.lon)]]
    /\ UNCHANGED <<positions, statusVars, shipmentVars, weatherVars, routeVars, etaVars,
                   reportVars, factoryVars, namingVars, impactVars, handlers, path>>

\* the same four distances from the page's calculateDistance
PageCalculateDistance ==
    /\ positions.given
    /\ ~distances.client.measured
    /\ LET a == positions.a
           b == positions.b
       IN distances' =
             [distances EXCEPT !.client =
                 [measured |-> TRUE,
                  ab |-> calculateDistance(a.lat, a.lon, b.lat, b.lon),
                  ba |-> calculateDistance(b.lat, b.lon, a.lat, a.lon),
                  aa |-> calculateDistance(a.lat, a.lon, a.lat, a.lon),
                  bb |-> calculateDistance(b.lat, b.lon, b.lat, b.lon)]]
    /\ UNCHANGED <<positions, statusVars, shipmentVars, weatherVars, routeVars, etaVars,
                   reportVars, factoryVars, namingVars, impactVars, handlers, path>>

---------------------------------------------------------------------------
(* GET /api/weather/impact/:shipmentId (server/src/services/reportService.ts) *)
(*                                                                         *)
(* Each request runs the handler from one `await` to the next; requests    *)
(* for the same shipment interleave at those points.  Times are minutes;   *)
(* recorded_at is the database's NOW() at the insert.                      *)

Hour == 60
MaxClock == 120
MaxRequests == 2

Idle == [pc |-> "idle", shouldRecordWeather |-> FALSE, originWeather |-> FALSE,
         destWeather |-> FALSE, code |-> 0, historicalImpacts |-> 0]

\* recentImpacts: the rows with impact.recorded_at > oneHourAgo
recentImpacts(rows, now) ==
    SelectSeq(rows, LAMBDA impact : impact.recorded_at > now - Hour)

\* number of weather objects obtained, the length of impactsToRecord
impactsToRecord(q) ==
    (IF q.originWeather THEN 1 ELSE 0) + (IF q.destWeather THEN 1 ELSE 0)

\* lines 953-971: select the shipment with its weather_impacts, answer 404
\* when it is not found, and decide whether to record
SelectShipment(r, found) ==
    /\ requests[r].pc = "idle"
    /\ requests' =
          [requests EXCEPT ![r] =
              IF ~found THEN [@ EXCEPT !.pc = "done", !.code = 404]
              ELSE [@ EXCEPT !.pc = "selected",
                             !.shouldRecordWeather =
                                 Len(recentImpacts(weatherImpacts, clock)) = 0]]
    /\ UNCHANGED <<clock, weatherImpacts, weatherData>>
    /\ UNCHANGED <<statusVars, shipmentVars, weatherVars, routeVars, etaVars, reportVars,
                   factoryVars, namingVars, distanceVars, handlers, path>>

\* lines 974-989: current weather at origin and destination; either may be
\* null (no coordinates, or no answer from the weather service)
GetWeather(r, origin, dest) ==
    /\ requests[r].pc = "selected"
    /\ requests' = [requests EXCEPT ![r] = [@ EXCEPT !.pc = "weather",
                                                     !.originWeather = origin,
                                                     !.destWeather = dest]]
    /\ UNCHANGED <<clock, weatherImpacts, weatherData>>
    /\ UNCHANGED <<statusVars, shipmentVars, weatherVars, routeVars, etaVars, reportVars,
                   factoryVars, namingVars, distanceVars, handlers, path>>

\* lines 992-1010: cache the raw weather data, when recording
CacheWeatherData(r, ok) ==
    /\ requests[r].pc = "weather"
    /\ requests[r].shouldRecordWeather
    /\ weatherData' = IF ok THEN weatherData + impactsToRecord(requests[r])
                      ELSE weatherData
    /\ requests' = [requests EXCEPT ![r] = [@ EXCEPT !.pc = "cached"]]
    /\ UNCHANGED <<clock, weatherImpacts>>
    /\ UNCHANGED <<statusVars, shipmentVars, weatherVars, routeVars, etaVars, reportVars,
                   factoryVars, namingVars, distanceVars, handlers, path>>

\* lines 1012-1050: insert one row per weather object, in one insert
InsertImpacts(r, ok) ==
    /\ requests[r].pc = "cached"
    /\ weatherImpacts' =
          IF impactsToRecord(requests[r]) > 0 /\ ok
          THEN Append(weatherImpacts,
                      [recorded_at |-> clock, request |-> r,
                       rows |-> impactsToRecord(requests[r])])
          ELSE weatherImpacts
    /\ requests' = [requests EXCEPT ![r] = [@ EXCEPT !.pc = "recorded"]]
    /\ UNCHANGED <<clock, weatherData>>
    /\ UNCHANGED <<statusVars, shipmentVars, weatherVars, routeVars, etaVars, reportVars,
                   factoryVars, namingVars, distanceVars, handlers, path>>

\* lines 1053-1068: read the impacts again and answer
Respond(r) ==
    /\ \/ requests[r].pc = "recorded"
       \/ requests[r].pc = "weather" /\ ~requests[r].shouldRecordWeather
    /\ requests' = [requests EXCEPT ![r] = [@ EXCEPT !.pc = "done", !.code = 200,
                                                     !.historicalImpacts =
                                                         Len(weatherImpacts)]]
    /\ UNCHANGED <<clock, weatherImpacts, weatherData>>
    /\ UNCHANGED <<statusVars, shipmentVars, weatherVars, routeVars, etaVars, reportVars,
                   factoryVars, namingVars, distanceVars, handlers, path>>

\* half an hour passes
Tick ==
    /\ clock < MaxClock
    /\ clock' = clock + 30
    /\ UNCHANGED <<weatherImpacts, weatherData, requests>>
    /\ UNCHANGED <<statusVars, shipmentVars, weatherVars, routeVars, etaVars, reportVars,
                   factoryVars, namingVars, distanceVars, handlers, path>>

---------------------------------------------------------------------------
(* Specifications                                                          *)

IdleStatus   == /\ query = RunQuery(pending, pending)
                /\ current = PendingStatus
                /\ accepted = FALSE
IdleShipment == /\ shipment = Absent
                /\ events = <<>>
                /\ assignments = 0
                /\ response = NoResponse
IdleWeather  == /\ reading = NoReading
                /\ weather = NotBuilt
                /\ verdict = NoVerdict
IdleRoute    == /\ route = NoRoute
                /\ routeImpact = NoRouteImpact
IdleEta      == /\ trip = NoTrip
                /\ flightEta = NotComputed
                /\ projection = NotComputed
IdleReport   == /\ report = NoReport
                /\ output = NoOutput
                /\ metadata = NoMetadata
                /\ calls = NoCalls
IdleFactory  == /\ order = NoOrder
                /\ created = NotCreated
IdleNaming   == /\ naming = NoNaming
                /\ made = NotMade
IdleDistance == /\ positions = NoPositions
                /\ distances = NoDistances
IdleImpact   == /\ clock = 0
                /\ weatherImpacts = <<>>
                /\ weatherData = 0
                /\ requests = <<>>
IdleHandlers == handlers = <<>>
IdlePath     == path = <<>>
IdleExtra    == IdleFactory /\ IdleNaming /\ IdleDistance /\ IdleImpact /\ IdleHandlers /\ IdlePath

\* the status classes and the factory, queried and driven by requests
InitStatus ==
    IdleStatus /\ IdleShipment /\ IdleWeather /\ IdleRoute /\ IdleEta /\ IdleReport /\ IdleExtra

NextStatus ==
    \/ \E s \in StatusStrings, t \in StatusStrings : CheckTransition(s, t)
    \/ \E t \in StatusStrings, r \in Reasons : TransitionRequest(t, r)

SpecStatus == InitStatus /\ [][NextStatus]_vars

\* one shipment handled by non-overlapping requests
Init ==
    IdleStatus /\ IdleShipment /\ IdleWeather /\ IdleRoute /\ IdleEta /\ IdleReport /\ IdleExtra

Next ==
    \/ \E insertOk \in BOOLEAN, eventOk \in BOOLEAN : PostCreate(insertOk, eventOk)
    \/ \E status \in UpdateStatuses, fetchOk \in BOOLEAN, updateOk \in BOOLEAN,
          eventOk \in BOOLEAN : PutUpdate(status, fetchOk, updateOk, eventOk)
    \/ \E bodyOk \in BOOLEAN, fetchOk \in BOOLEAN, flightFound \in BOOLEAN,
          assignOk \in BOOLEAN, updateOk \in BOOLEAN, eventOk \in BOOLEAN :
          PostAssign(bodyOk, fetchOk, flightFound, assignOk, updateOk, eventOk)

Spec == Init /\ [][Next]_vars

\* one shipment handled by non-overlapping requests whose database writes
\* (inserts and updates) all succeed; a select may still find nothing
NextWrites ==
    \/ PostCreate(TRUE, TRUE)
    \/ \E status \in UpdateStatuses, fetchOk \in BOOLEAN :
          PutUpdate(status, fetchOk, TRUE, TRUE)
    \/ \E bodyOk \in BOOLEAN, fetchOk \in BOOLEAN, flightFound \in BOOLEAN :
          PostAssign(bodyOk, fetchOk, flightFound, TRUE, TRUE, TRUE)

SpecWrites == Init /\ [][NextWrites]_vars

\* one weather object built from API data or from constructor arguments
InitWeather ==
    /\ IdleStatus /\ IdleShipment /\ IdleRoute /\ IdleEta /\ IdleReport /\ IdleExtra
    /\ reading \in ApiReadings \cup ConstructorArgs
    /\ weather = NotBuilt
    /\ verdict = NoVerdict

NextWeather ==
    \/ FactoryCreate
    \/ NewClearWeather
    \/ NewCloudyWeather
    \/ NewRainWeather
    \/ NewStormWeather
    \/ NewFogWeather
    \/ NewSnowWeather

SpecWeather == InitWeather /\ [][NextWeather]_vars

\* one call of getRouteImpact, the outcome of each request being an input
InitRoute ==
    /\ IdleStatus /\ IdleShipment /\ IdleWeather /\ IdleEta /\ IdleReport /\ IdleExtra
    /\ route \in Routes
    /\ routeImpact = NoRouteImpact

NextRoute == GetRouteImpact

SpecRoute == InitRoute /\ [][NextRoute]_vars

\* one flight and one shipment page, each asked for the ETA once
InitEta ==
    /\ IdleStatus /\ IdleShipment /\ IdleWeather /\ IdleRoute /\ IdleReport /\ IdleExtra
    /\ trip \in Trips
    /\ flightEta = NotComputed
    /\ projection = NotComputed

NextEta ==
    \/ FlightCalculateETA
    \/ PageCalculateETA

SpecEta == InitEta /\ [][NextEta]_vars

\* one report built by ReportFactory.createReport, then asked for its
\* output and its metadata up to MaxCalls times
InitReport ==
    /\ IdleStatus /\ IdleShipment /\ IdleWeather /\ IdleRoute /\ IdleEta /\ IdleExtra
    /\ report \in {createReport(type, config, data, 1) :
                      type \in {"csv", "json", "html"}, config \in ReportConfigs,
                      data \in ReportData}
    /\ output = NoOutput
    /\ metadata = NoMetadata
    /\ calls = NoCalls

NextReport ==
    \/ GenerateCSV
    \/ GenerateJSON
    \/ GenerateHTML
    \/ GetMetadata

SpecReport == InitReport /\ [][NextReport]_vars

\* one call of ReportFactory.createReport with a format string of any kind
InitFactory ==
    /\ IdleStatus /\ IdleShipment /\ IdleWeather /\ IdleRoute /\ IdleEta /\ IdleReport
    /\ IdleNaming /\ IdleDistance /\ IdleImpact /\ IdleHandlers /\ IdlePath
    /\ order \in Orders
    /\ created = NotCreated

NextFactory == CreateReport

SpecFactory == InitFactory /\ [][NextFactory]_vars

\* one status object made by StatusFactory.createStatus or by a constructor
InitNaming ==
    /\ IdleStatus /\ IdleShipment /\ IdleWeather /\ IdleRoute /\ IdleEta /\ IdleReport
    /\ IdleFactory /\ IdleDistance /\ IdleImpact /\ IdleHandlers /\ IdlePath
    /\ naming \in Namings
    /\ made = NotMade

NextNaming ==
    \/ FactoryCreateStatus
    \/ ConstructStatus

SpecNaming == InitNaming /\ [][NextNaming]_vars

\* two positions, and the distances between them from both implementations
InitDistance ==
    /\ IdleStatus /\ IdleShipment /\ IdleWeather /\ IdleRoute /\ IdleEta /\ IdleReport
    /\ IdleFactory /\ IdleNaming /\ IdleImpact /\ IdleHandlers /\ IdlePath
    /\ positions \in {[a |-> p, b |-> q, given |-> TRUE] : p \in Positions, q \in Positions}
    /\ distances = NoDistances

NextDistance ==
    \/ VehicleDistanceTo
    \/ PageCalculateDistance

SpecDistance == InitDistance /\ [][NextDistance]_vars

\* MaxRequests requests for the weather impact of one shipment, interleaved
InitImpact ==
    /\ IdleStatus /\ IdleShipment /\ IdleWeather /\ IdleRoute /\ IdleEta /\ IdleReport
    /\ IdleFactory /\ IdleNaming /\ IdleDistance /\ IdleHandlers /\ IdlePath
    /\ clock = 0
    /\ weatherImpacts = <<>>
    /\ weatherData = 0
    /\ requests = [r \in 1..MaxRequests |-> Idle]

NextImpact ==
    \/ \E r \in 1..MaxRequests, found \in BOOLEAN : SelectShipment(r, found)
    \/ \E r \in 1..MaxRequests, origin \in BOOLEAN, dest \in BOOLEAN :
          GetWeather(r, origin, dest)
    \/ \E r \in 1..MaxRequests, ok \in BOOLEAN : CacheWeatherData(r, ok)
    \/ \E r \in 1..MaxRequests, ok \in BOOLEAN : InsertImpacts(r, ok)
    \/ \E r \in 1..MaxRequests : Respond(r)
    \/ Tick

SpecImpact == InitImpact /\ [][NextImpact]_vars

\* one shipment, created by POST /, then handled by overlapping requests
InitOverlap ==
    /\ IdleStatus /\ IdleWeather /\ IdleRoute /\ IdleEta /\ IdleReport
    /\ IdleFactory /\ IdleNaming /\ IdleDistance /\ IdleImpact /\ IdlePath
    /\ shipment = [exists |-> TRUE, status |-> Str(pending), writes |-> 1]
    /\ events = <<Str(pending)>>
    /\ assignments = 0
    /\ response = [op |-> "POST /", code |-> 201, status |-> Undefined]
    /\ handlers = [r \in 1..MaxHandlers |-> Free]

NextOverlap ==
    \/ \E r \in 1..MaxHandlers, status \in OverlapStatuses, fetchOk \in BOOLEAN :
          PutSelect(r, status, fetchOk)
    \/ \E r \in 1..MaxHandlers, updateOk \in BOOLEAN : PutUpdateRow(r, updateOk)
    \/ \E r \in 1..MaxHandlers, eventOk \in BOOLEAN : PutInsertEvent(r, eventOk)
    \/ \E r \in 1..MaxHandlers, bodyOk \in BOOLEAN, fetchOk \in BOOLEAN,
          flightFound \in BOOLEAN : AssignSelect(r, bodyOk, fetchOk, flightFound)
    \/ \E r \in 1..MaxHandlers, assignOk \in BOOLEAN : AssignInsert(r, assignOk)
    \/ \E r \in 1..MaxHandlers, updateOk \in BOOLEAN : AssignUpdateRow(r, updateOk)
    \/ \E r \in 1..MaxHandlers, eventOk \in BOOLEAN : AssignInsertEvent(r, eventOk)

SpecOverlap == InitOverlap /\ [][NextOverlap]_vars

\* one lifecycle, begun in any of the six statuses
InitLifecycle ==
    /\ IdleShipment /\ IdleWeather /\ IdleRoute /\ IdleEta /\ IdleReport
    /\ IdleFactory /\ IdleNaming /\ IdleDistance /\ IdleImpact /\ IdleHandlers
    /\ query = RunQuery(pending, pending)
    /\ accepted = FALSE
    /\ \E n \in StatusNames, r \in Reasons :
          /\ current = createStatus(Str(n), r)
          /\ path = <<n>>

NextLifecycle == \E t \in StatusStrings, r \in Reasons : LifecycleRequest(t, r)

SpecLifecycle == InitLifecycle /\ [][NextLifecycle]_vars

---------------------------------------------------------------------------
(* Claims about the status classes and the shipment routes                 *)

TransitionTable(s) ==
    CASE s = pending    -> {departed, cancelled}
      [] s = departed   -> {in_transit, delayed, cancelled}
      [] s = in_transit -> {arrived, delayed}
      [] s = delayed    -> {departed, in_transit, arrived, cancelled}
      [] s = arrived    -> {}
      [] s = cancelled  -> {}

\* C1: for every pair (s, t) of the six status names, isValidTransition(s, t)
\* and createStatus(s).canTransitionTo(t) return the same boolean, which is
\* true exactly when t is in the table row of s.
C1_TransitionTableAgrees ==
    (query.currentStatus \in StatusNames /\ query.newStatus \in StatusNames) =>
        /\ ~query.valid.threw
        /\ ~query.can.threw
        /\ query.valid.value = query.can.value
        /\ query.can.value <=> (query.newStatus \in TransitionTable(query.currentStatus))

C1_Witness ==
    /\ query.currentStatus = delayed
    /\ query.newStatus = in_transit
    /\ query.valid.value
    /\ query.can.value

TerminalClasses == {"ArrivedStatus", "CancelledStatus"}

\* C2: an arrived or cancelled status object answers canTransitionTo(t) = FALSE
\* for every target string t; and under transition requests that are applied
\* only when canTransitionTo accepts them, a lifecycle that has reached arrived
\* or cancelled keeps that status object for ever.
C2_TerminalHasNoTransitions ==
    /\ [](createStatus(Str(query.currentStatus), NoReason).cls \in TerminalClasses
            => (~query.can.threw /\ ~query.can.value))
    /\ [][current.cls \in TerminalClasses => current' = current]_vars

C2_Witness ==
    /\ current.cls = "CancelledStatus"
    /\ ~accepted
    /\ createStatus(Str(query.currentStatus), NoReason).cls = "ArrivedStatus"
    /\ query.newStatus = arrived

\* C3: a PUT that is answered from the stored row (no database failure) and
\* whose requested status differs from the stored status and is not allowed by
\* the transition table is answered 400 and writes neither the shipment row
\* nor a tracking event; and every change of the stored status from s to
\* t # s is a pair allowed by the table.
C3_PutRejectsIllegalTransition ==
    [][ /\ ( /\ response'.op = "PUT"
             /\ response'.code \in {200, 400}
             /\ response'.status # Undefined
             /\ response'.status # shipment.status
             /\ ~( /\ shipment.status.t = "string"
                   /\ shipment.status.s \in StatusNames
                   /\ response'.status.t = "string"
                   /\ response'.status.s \in TransitionTable(shipment.status.s) ) )
           => (response'.code = 400 /\ UNCHANGED <<shipment, events>>)
        /\ (shipment.exists /\ shipment'.status # shipment.status)
           => ( /\ shipment.status.t = "string"
                /\ shipment.status.s \in StatusNames
                /\ shipment'.status.t = "string"
                /\ shipment'.status.s \in TransitionTable(shipment.status.s) )
      ]_vars

---------------------------------------------------------------------------
(* Claims about the weather classes and WeatherFactory                     *)

FromApi == reading.kind = "api" /\ weather # NotBuilt

CarriesReading ==
    /\ weather.temperature = reading.temp
    /\ weather.windSpeed = reading.wind_speed
    /\ weather.humidity = reading.humidity
    /\ verdict.temperature = reading.temp
    /\ verdict.windSpeed = reading.wind_speed
    /\ verdict.humidity = reading.humidity

ClassOfCode(c) ==
    CASE c \in 200..299 -> "StormWeather"
      [] c \in 300..599 -> "RainWeather"
      [] c \in 600..699 -> "SnowWeather"
      [] c \in 700..799 -> "FogWeather"
      [] c = 800        -> "ClearWeather"
      [] c \in 801..899 -> "CloudyWeather"

\* C4: createFromApiData selects the variant from the condition code:
\* 200-299 Storm, 300-599 Rain, 600-699 Snow, 700-799 Fog, 800 Clear,
\* 801-899 Cloudy; the variant carries the supplied temperature, wind speed
\* and humidity unchanged.
C4_FactorySelectsByCode ==
    (FromApi /\ reading.weatherId.t = "number" /\ reading.weatherId.n \in 200..899) =>
        /\ weather.cls = ClassOfCode(reading.weatherId.n)
        /\ CarriesReading

C4_Witness ==
    /\ FromApi
    /\ reading.weatherId = Num(699)
    /\ weather.cls = "SnowWeather"
    /\ reading.humidity = 0
    /\ weather.humidity = 0

\* C5: for every reading whose condition code is missing or is an integer
\* outside 200-899, createFromApiData returns the Clear variant with the
\* supplied temperature, wind speed and humidity.
C5_UnknownCodeIsClear ==
    (FromApi /\ (reading.weatherId.t = "undefined" \/ reading.weatherId.n \notin 200..899)) =>
        /\ weather.cls = "ClearWeather"
        /\ CarriesReading

\* C6: a Storm has impact critical when lightning is set or severity is
\* severe, otherwise high for moderate and medium for light; delay factor
\* 0.15/0.30/0.50 by severity only; shouldGround exactly when severe or
\* lightning.  Condition code 211 yields a Storm with lightning set, impact
\* critical and shouldGround true.
C6_StormVerdict ==
    /\ weather.cls = "StormWeather" =>
        /\ verdict.type = "storm"
        /\ verdict.impact =
              (IF weather.hasLightning \/ weather.severity = "severe" THEN "critical"
               ELSE IF weather.severity = "moderate" THEN "high" ELSE "medium")
        /\ verdict.delayFactor =
              (CASE weather.severity = "light" -> 15
                 [] weather.severity = "moderate" -> 30
                 [] weather.severity = "severe" -> 50)
        /\ verdict.shouldGround <=> (weather.severity = "severe" \/ weather.hasLightning)
    /\ (FromApi /\ reading.weatherId = Num(211)) =>
        /\ weather.cls = "StormWeather"
        /\ weather.hasLightning
        /\ verdict.impact = "critical"
        /\ verdict.shouldGround

C6_Witness ==
    /\ FromApi
    /\ reading.weatherId = Num(211)
    /\ reading.wind_speed = 20
    /\ weather.severity = "moderate"
    /\ verdict.impact = "critical"
    /\ verdict.delayFactor = 30

\* C7: a Fog with visibility v meters has impact / delay factor
\* v<200 critical/0.60; v<500 high/0.40; v<1000 medium/0.25; v<2000 low/0.15;
\* else none/0.05; shouldGround exactly when v<200; wind, temperature and
\* humidity have no influence.
C7_FogVerdict ==
    weather.cls = "FogWeather" =>
        LET v == weather.visibility IN
        /\ verdict.type = "fog"
        /\ verdict.impact =
              (IF v < 200 THEN "critical" ELSE IF v < 500 THEN "high"
               ELSE IF v < 1000 THEN "medium" ELSE IF v < 2000 THEN "low" ELSE "none")
        /\ verdict.delayFactor =
              (IF v < 200 THEN 60 ELSE IF v < 500 THEN 40
               ELSE IF v < 1000 THEN 25 ELSE IF v < 2000 THEN 15 ELSE 5)
        /\ verdict.shouldGround <=> (v < 200)

C7_Witness ==
    /\ reading.kind = "FogWeather"
    /\ weather.cls = "FogWeather"
    /\ weather.visibility = 200
    /\ weather.windSpeed = MaxWind
    /\ verdict.impact = "high"
    /\ verdict.delayFactor = 40
    /\ ~verdict.shouldGround

\* C8: a Rain has impact none/low/medium and delay factor 0.05/0.10/0.20 for
\* light/moderate/heavy; shouldGround exactly when heavy and wind speed > 15.
C8_RainVerdict ==
    weather.cls = "RainWeather" =>
        /\ verdict.type = "rain"
        /\ verdict.impact =
              (CASE weather.intensity = "light" -> "none"
                 [] weather.intensity = "moderate" -> "low"
                 [] weather.intensity = "heavy" -> "medium")
        /\ verdict.delayFactor =
              (CASE weather.intensity = "light" -> 5
                 [] weather.intensity = "moderate" -> 10
                 [] weather.intensity = "heavy" -> 20)
        /\ verdict.shouldGround <=> (weather.intensity = "heavy" /\ weather.windSpeed > 15)

C8_Witness ==
    /\ weather.cls = "RainWeather"
    /\ weather.intensity = "heavy"
    /\ weather.windSpeed = 15
    /\ verdict.impact = "medium"
    /\ ~verdict.shouldGround

\* C9: a Snow has impact high when intensity is heavy or accumulation > 5,
\* otherwise medium for moderate and low for light; delay factor
\* 0.10/0.25/0.40 by intensity only; shouldGround exactly when heavy and
\* accumulation > 5.
C9_SnowVerdict ==
    weather.cls = "SnowWeather" =>
        /\ verdict.type = "snow"
        /\ verdict.impact =
              (IF weather.intensity = "heavy" \/ weather.accumulation > 5 THEN "high"
               ELSE IF weather.intensity = "moderate" THEN "medium" ELSE "low")
        /\ verdict.delayFactor =
              (CASE weather.intensity = "light" -> 10
                 [] weather.intensity = "moderate" -> 25
                 [] weather.intensity = "heavy" -> 40)
        /\ verdict.shouldGround <=> (weather.intensity = "heavy" /\ weather.accumulation > 5)

C9_Witness ==
    /\ weather.cls = "SnowWeather"
    /\ weather.intensity = "light"
    /\ weather.accumulation = 6
    /\ verdict.impact = "high"
    /\ verdict.delayFactor = 10
    /\ ~verdict.shouldGround

\* C10: a Clear reading with wind speed w has impact low and delay factor 0.05
\* when w > 15, otherwise none and 0; shouldGround exactly when w > 25; a
\* grounded Clear reading still has impact low.
C10_ClearVerdict ==
    weather.cls = "ClearWeather" =>
        /\ verdict.type = "clear"
        /\ verdict.impact = (IF weather.windSpeed > 15 THEN "low" ELSE "none")
        /\ verdict.delayFactor = (IF weather.windSpeed > 15 THEN 5 ELSE 0)
        /\ verdict.shouldGround <=> (weather.windSpeed > 25)
        /\ verdict.shouldGround => verdict.impact = "low"

C10_Witness ==
    /\ weather.cls = "ClearWeather"
    /\ weather.windSpeed = 30
    /\ verdict.shouldGround
    /\ verdict.impact = "low"

\* C11: a Cloudy reading with cloud coverage c and wind speed w has impact low
\* and delay factor 0.05 exactly when c > 90 and w > 10, otherwise impact none
\* and delay factor 0; it never grounds flights.
C11_CloudyVerdict ==
    weather.cls = "CloudyWeather" =>
        /\ verdict.type = "cloudy"
        /\ verdict.impact =
              (IF weather.cloudCoverage > 90 /\ weather.windSpeed > 10 THEN "low" ELSE "none")
        /\ verdict.delayFactor =
              (IF weather.cloudCoverage > 90 /\ weather.windSpeed > 10 THEN 5 ELSE 0)
        /\ ~verdict.shouldGround

\* C12: for Rain, Storm, Fog and Snow verdicts, shouldGround implies an impact
\* of high or critical.
GroundsOnlyWhenSevere ==
    verdict.shouldGround => verdict.impact \in {"high", "critical"}

C12_GroundImpliesSevere ==
    weather.cls \in {"RainWeather", "StormWeather", "FogWeather", "SnowWeather"} =>
        GroundsOnlyWhenSevere

\* C12 (amended): for Storm, Fog and Snow verdicts, shouldGround implies an
\* impact of high or critical; a Rain verdict grounds at impact medium (heavy
\* rain with wind above 15), as a Clear verdict grounds at impact low.
C12_GroundImpliesSevere_Amended ==
    /\ weather.cls \in {"StormWeather", "FogWeather", "SnowWeather"} =>
          GroundsOnlyWhenSevere
    /\ (weather.cls = "RainWeather" /\ verdict.shouldGround) => verdict.impact = "medium"

C12_Witness ==
    /\ weather.cls = "SnowWeather"
    /\ verdict.shouldGround
    /\ verdict.impact = "high"

\* the order none < low < medium < high < critical, and light < moderate < severe
ImpactRank(level) == indexOf(ImpactLevel, level)
SeverityRank(s) == indexOf(<<"light", "moderate", "severe">>, s)

\* the impact the factory's object reports when the reading carries visibility v
ImpactAtVisibility(v) ==
    assessImpact(createFromApiData([reading EXCEPT !.visibility = Num(v)]))

\* C13: impact never decreases as the severity parameter gets worse: for a fog
\* code and supplied visibilities 0 <= v1 <= v2 the factory's object for v1 has
\* an impact at least that for v2; for storms with the lightning flag fixed,
\* impact(light) <= impact(moderate) <= impact(severe), and lightning always
\* gives critical.
C13_ImpactMonotone ==
    /\ (FromApi /\ weather.cls = "FogWeather" /\ reading.visibility.t = "number") =>
          \A v2 \in Visibilities :
              v2 >= reading.visibility.n =>
                  ImpactRank(verdict.impact) >= ImpactRank(ImpactAtVisibility(v2))
    /\ weather.cls = "StormWeather" =>
          /\ weather.hasLightning => verdict.impact = "critical"
          /\ \A s \in Severities :
                SeverityRank(s) >= SeverityRank(weather.severity) =>
                    ImpactRank(assessImpact([weather EXCEPT !.severity = s]))
                        >= ImpactRank(verdict.impact)

---------------------------------------------------------------------------
(* Claims about the route weather                                          *)

\* the route points whose reading could be classified
Classified ==
    {i \in 1..Len(route.responses) : route.apiKey /\ route.responses[i].kind = "api"}
ImpactOfPoint(i) == assessImpact(createFromApiData(route.responses[i]))
DelayOfPoint(i)  == getDelayFactor(createFromApiData(route.responses[i]))

RECURSIVE SumOfDelays(_)
SumOfDelays(S) ==
    IF S = {} THEN 0
    ELSE LET i == CHOOSE j \in S : TRUE IN DelayOfPoint(i) + SumOfDelays(S \ {i})

RouteImpactResolved == routeImpact # NoRouteImpact

\* C15: getRouteImpact returns as maxImpact the highest-ordinal impact among
\* the readings that could be classified and as averageDelayFactor the
\* arithmetic mean of exactly those readings' delay factors; unavailable
\* points are excluded from both; with no reading available the result is
\* maxImpact none and averageDelayFactor 0.
C15_RouteImpact ==
    RouteImpactResolved =>
        /\ Len(routeImpact.conditions) = Cardinality(Classified)
        /\ IF Classified = {}
           THEN /\ routeImpact.maxImpact = "none"
                /\ routeImpact.averageDelayFactor.num = 0
           ELSE /\ \E i \in Classified : ImpactOfPoint(i) = routeImpact.maxImpact
                /\ \A i \in Classified :
                      ImpactRank(ImpactOfPoint(i)) <= ImpactRank(routeImpact.maxImpact)
                /\ routeImpact.averageDelayFactor.num * Cardinality(Classified)
                      = routeImpact.averageDelayFactor.den * SumOfDelays(Classified)

\* a failed point between a critical and a clear reading: the maximum is not
\* the last impact and the mean is over two readings, not three
C15_Witness ==
    /\ RouteImpactResolved
    /\ Len(route.responses) = 3
    /\ Cardinality(Classified) = 2
    /\ route.responses[2] = RequestFailed
    /\ routeImpact.maxImpact = "critical"
    /\ ImpactOfPoint(3) = "none"
    /\ routeImpact.averageDelayFactor = [num |-> 30, den |-> 1]

---------------------------------------------------------------------------
(* Claims about the ETA computations                                       *)

FlightEtaComputed  == flightEta # NotComputed
ProjectionComputed == projection # NotComputed
HasDestination     == trip.dest_lat.t = "number" /\ trip.dest_lon.t = "number"

\* C16: for a vehicle with ground speed <= 0 and any destination,
\* Flight.calculateETA returns the infinity sentinel, and the weather-adjusted
\* projection has baseEtaMinutes = etaMinutes = infinity and addedMinutes = 0,
\* whatever the weather verdicts.
C16_NonPositiveSpeedIsInfinity ==
    (trip.flight.assigned /\ trip.flight.speed <= 0 /\ HasDestination) =>
        /\ FlightEtaComputed => flightEta.minutes = Infinity
        /\ ProjectionComputed =>
              /\ projection.result = "eta"
              /\ projection.baseEtaMinutes = Infinity
              /\ projection.etaMinutes = Infinity
              /\ projection.weatherDelay.addedMinutes = 0

\* the larger of the two delay factors, a missing verdict counting as 0
DelayOrZero(v) == IF v.t = "number" THEN v.n ELSE 0
MaxDelay ==
    IF DelayOrZero(trip.weather.origin) > DelayOrZero(trip.weather.destination)
    THEN DelayOrZero(trip.weather.origin) ELSE DelayOrZero(trip.weather.destination)

FiniteProjection ==
    /\ ProjectionComputed
    /\ projection.result = "eta"
    /\ projection.baseEtaMinutes.t = "number"

\* what C17 derives from the rounding rule
AdjustedEtaConsequences ==
    LET b   == projection.baseEtaMinutes.n
        eta == projection.etaMinutes.n
    IN /\ projection.weatherDelay.addedMinutes = eta - b
       /\ projection.weatherDelay.addedMinutes >= 0
       /\ eta <= 2 * b
       /\ ~trip.weather.present =>
             (eta = b /\ projection.weatherDelay.addedMinutes = 0)

\* C17: for a finite base ETA b >= 0 and delay factors o, d in [0, 1] (a
\* missing verdict counting as 0), etaMinutes = round(b * (1 + max(o, d))) and
\* addedMinutes = etaMinutes - b; so addedMinutes >= 0, etaMinutes <= 2 * b,
\* and with no weather etaMinutes = b and addedMinutes = 0.
C17_AdjustedEta ==
    FiniteProjection =>
        /\ projection.etaMinutes.n
              = (projection.baseEtaMinutes.n * (100 + MaxDelay) + 50) \div 100
        /\ AdjustedEtaConsequences

\* C17 (amended): etaMinutes is an integer nearest to b * (1 + max(o, d)),
\* either neighbour when the product ends in one half, and addedMinutes =
\* etaMinutes - b; so addedMinutes >= 0, etaMinutes <= 2 * b, and with no
\* weather etaMinutes = b and addedMinutes = 0.
C17_AdjustedEta_Amended ==
    FiniteProjection =>
        /\ LET exact100 == projection.baseEtaMinutes.n * (100 + MaxDelay)
               eta100   == projection.etaMinutes.n * 100
           IN  eta100 - exact100 <= 50 /\ exact100 - eta100 <= 50
        /\ AdjustedEtaConsequences

C17_Witness ==
    /\ FiniteProjection
    /\ projection.baseEtaMinutes.n = 50
    /\ trip.weather.origin = Num(15)
    /\ trip.weather.destination = Num(5)
    /\ projection.etaMinutes.n = 57
    /\ projection.weatherDelay.addedMinutes = 7

---------------------------------------------------------------------------
(* Claims about the reports                                                *)

\* text.split('\n')
RECURSIVE SplitLines(_, _)
SplitLines(text, line) ==
    IF text = <<>> THEN <<line>>
    ELSE IF Head(text) = "\n" THEN <<line>> \o SplitLines(Tail(text), <<>>)
    ELSE SplitLines(Tail(text), Append(line, Head(text)))

\* A reader of records of quoted fields (RFC 4180): a field opens with a
\* quote, a doubled quote inside it is one quote character, a single quote
\* closes it, and a closed field is followed by a comma or the end of the
\* record.  The fields read, or Malformed.
Malformed == << <<"malformed record">> >>
RECURSIVE ScanRecord(_, _, _, _)
ScanRecord(rest, mode, field, fields) ==
    IF rest = <<>>
    THEN IF mode = "closed" THEN Append(fields, field)
         ELSE IF mode = "start" /\ fields = <<>> THEN <<>>
         ELSE Malformed
    ELSE IF mode = "start"
    THEN IF Head(rest) = quote THEN ScanRecord(Tail(rest), "quoted", <<>>, fields)
         ELSE Malformed
    ELSE IF mode = "quoted"
    THEN IF Head(rest) # quote
         THEN ScanRecord(Tail(rest), "quoted", Append(field, Head(rest)), fields)
         ELSE IF Len(rest) >= 2 /\ rest[2] = quote
         THEN ScanRecord(Tail(Tail(rest)), "quoted", Append(field, quote), fields)
         ELSE ScanRecord(Tail(rest), "closed", field, fields)
    ELSE IF Head(rest) = "," THEN ScanRecord(Tail(rest), "start", <<>>, Append(fields, field))
         ELSE Malformed
ReadRecord(line) == ScanRecord(line, "start", <<>>, <<>>)

\* the string a cell stands for in the delimited text
CellText(value) ==
    IF value.t \in {"null", "undefined"} THEN <<>>
    ELSE IF value.t = "string" THEN value.s
    ELSE IF value.t = "date" THEN <<toISOString(value.n)>>
    ELSE NumberToString(value.n)

HeadersOf(r)  == [j \in 1..Len(r.columns) |-> r.columns[j].header]
CsvLines(r)   == SplitLines(CSVReport_generate(r).result.text, <<>>)
\* the line of the column headers: after title, timestamp, date range, blank
CsvHeaderAt(r) == IF r.dateRange.present THEN 5 ELSE 4

\* C18: in the delimited text the title, every column header and every data
\* cell is enclosed in double quotes with every embedded quote doubled, so
\* that a reader of quoted fields recovers the original strings; null and
\* undefined cells are the empty quoted string.
C18_CsvFieldsRoundTrip ==
    (report.type = "csv" /\ output.type = "csv") =>
        LET lines == SplitLines(output.text, <<>>)
            h     == CsvHeaderAt(report)
        IN /\ ReadRecord(lines[1]) = <<report.title>>
           /\ ReadRecord(lines[h]) = HeadersOf(report)
           /\ \A i \in 1..Len(report.data) :
                 ReadRecord(lines[h + i]) =
                     [j \in 1..Len(report.columns) |->
                         CellText(CellOf(report.data[i], report.columns[j].key))]

\* the tokens of text after the first open and before the next close
RECURSIVE DropThrough(_, _)
DropThrough(text, tok) ==
    IF text = <<>> THEN <<>>
    ELSE IF Head(text) = tok THEN Tail(text) ELSE DropThrough(Tail(text), tok)
RECURSIVE TakeUntil(_, _)
TakeUntil(text, tok) ==
    IF text = <<>> \/ Head(text) = tok THEN <<>>
    ELSE <<Head(text)>> \o TakeUntil(Tail(text), tok)
Between(text, open, close) == TakeUntil(DropThrough(text, open), close)

CountToken(text, tok) == Cardinality({i \in 1..Len(text) : text[i] = tok})

\* the contents of the <th> elements of a table head, in order
RECURSIVE ThTexts(_)
ThTexts(text) ==
    IF CountToken(text, "<th>") = 0 THEN <<>>
    ELSE <<TakeUntil(DropThrough(text, "<th>"), "</th>")>>
         \o ThTexts(DropThrough(DropThrough(text, "<th>"), "</th>"))

ReportGenerated == output.type # "none"

\* C19: for the same title, columns and rows (zero rows included) the three
\* encodings agree on the counts: getMetadata().rowCount, the data-row lines
\* and the "Total Rows: N" footer of the delimited text, totalRows and
\* data.length of the structured output, and the table body rows and the
\* footer of the markup all equal the number of input rows; the column counts
\* and the order of the column headers agree likewise.
C19_EncodingsAgreeOnCounts ==
    ReportGenerated =>
        LET n     == Len(report.data)
            k     == Len(report.columns)
            md    == Report_getMetadata(report)
            lines == CsvLines(report)
            h     == CsvHeaderAt(report)
            doc   == JSONReport_generate(report).result.doc
            html  == HTMLReport_generate(report).result.text
            thead == Between(html, "<thead>", "</thead>")
            tbody == Between(html, "<tbody>", "</tbody>")
        IN /\ md.rowCount = n
           /\ Len(lines) = h + n + 2
           /\ lines[h + n + 1] = <<>>
           /\ lines[h + n + 2] = <<quote, "Total Rows: ">> \o NumberToString(n) \o <<quote>>
           /\ doc.metadata.totalRows = n
           /\ Len(doc.data) = n
           /\ CountToken(tbody, "<tr>") = n
           /\ Between(html, "Total Rows: ", "</p>") = NumberToString(n)
           /\ md.columnCount = k
           /\ md.columns = HeadersOf(report)
           /\ ReadRecord(lines[h]) = HeadersOf(report)
           /\ doc.metadata.totalColumns = k
           /\ [i \in 1..Len(doc.columns) |-> doc.columns[i].header] = HeadersOf(report)
           /\ CountToken(thead, "<th>") = k
           /\ ThTexts(thead) = HeadersOf(report)

\* C20: generate() of every encoding leaves the rows, the columns, the title
\* and the timestamp of the report unchanged, so every generate() returns
\* what the previous one returned, and every getMetadata() likewise, in any
\* order of the calls.
C20_GenerateIsFrame ==
    [][/\ report' = report
       /\ (calls.generate > 0 /\ calls'.generate > calls.generate) => output' = output
       /\ (calls.getMetadata > 0 /\ calls'.getMetadata > calls.getMetadata)
             => metadata' = metadata
       /\ calls'.generate = calls.generate => output' = output
       /\ calls'.getMetadata = calls.getMetadata => metadata' = metadata]_vars

C20_Witness ==
    /\ calls.generate = 2
    /\ report.type = "html"
    /\ Len(report.data) = 2
    /\ ReportGenerated

---------------------------------------------------------------------------
(* Claims about the factories and the serialized status                    *)

FactoryCalled == created.called

SpellsName(x, n) ==
    /\ Len(x) = Len(n)
    /\ \A i \in 1..Len(n) :
          \/ x[i] = n[i]
          \/ \E k \in 1..Len(LowerChars) : LowerChars[k] = n[i] /\ UpperChars[k] = x[i]

NamedStatus(t) == {n \in StatusNames : t.t = "string" /\ SpellsName(t.s, n)}

MadeByFactory == made.called /\ naming.via = "createStatus"

\* C22: createStatus(name) returns, for each of the six status names in any
\* letter case, the variant whose getStatusName() is that name in lower
\* case; for every other name it throws; the object it returns is always of
\* one of the six classes.
C22_FactorySelectsByName ==
    MadeByFactory =>
        /\ \A n \in NamedStatus(naming.statusType) :
              /\ ~made.threw
              /\ made.statusName = n
              /\ made.status.statusName = n
        /\ NamedStatus(naming.statusType) = {} =>
              /\ made.threw
              /\ made.status = NoStatus
        /\ ~made.threw =>
              /\ made.status.cls \in StatusClasses
              /\ made.statusName \in StatusNames

\* a name in capitals has been resolved, and a near miss has been refused
C22_Witness ==
    /\ MadeByFactory
    /\ naming.statusType = Str(<<"I","N","_","T","R","A","N","S","I","T">>)
    /\ made.status.cls = "InTransitStatus"
    /\ made.statusName = in_transit

C23_BaseKeys == {"name", "timestamp", "description", "color", "icon", "priority"}

\* the reason the object was given: the argument, or the constructor's
\* default when it was omitted
ReasonOrDefault(cls) ==
    IF naming.reason # NoReason THEN naming.reason
    ELSE IF cls = "DelayedStatus" THEN "Unknown reason" ELSE "No reason provided"

\* C23: the serialized status always carries name, timestamp, description,
\* color, icon and priority; for the delayed and the cancelled status it also
\* carries the supplied reason (or the default placeholder) under the key
\* `reason`; for the other four statuses it carries no reason key.
C23_SerializedStatus ==
    (made.called /\ ~made.threw) =>
        /\ C23_BaseKeys \subseteq DOMAIN made.json
        /\ made.json.name = made.statusName
        /\ IF made.status.cls \in {"DelayedStatus", "CancelledStatus"}
           THEN /\ "reason" \in DOMAIN made.json
                /\ made.json.reason = ReasonOrDefault(made.status.cls)
           ELSE "reason" \notin DOMAIN made.json

---------------------------------------------------------------------------
(* Claims about the great-circle distance                                  *)

\* x === y on two JavaScript numbers: NaN equals nothing
NumbersEqual(x, y) == x.t = "number" /\ y.t = "number" /\ x.n = y.n

\* symmetric, a non-negative number, and 0 from a position to itself
DistanceLaws(d) ==
    d.measured =>
        /\ NumbersEqual(d.ab, d.ba)
        /\ d.ab.t = "number" /\ d.ab.n >= 0
        /\ d.ba.t = "number" /\ d.ba.n >= 0
        /\ NumbersEqual(d.aa, Num(0))
        /\ NumbersEqual(d.bb, Num(0))

\* C24: for all positions a and b with latitude in [-90, 90] and longitude
\* in [-180, 180], the great-circle distance is symmetric, distance(a, b) =
\* distance(b, a), is never negative, and distance(a, a) = 0.
C24_DistanceLaws == DistanceLaws(distances.server) /\ DistanceLaws(distances.client)

---------------------------------------------------------------------------
(* Claims about overlapping requests                                       *)

\* C25: across any interleaving of GET /api/weather/impact/:shipmentId
\* requests for the same shipment, overlapping ones included, no two
\* auto-recorded batches of the shipment are less than one hour apart.
C25_OncePerHour ==
    \A i \in 1..Len(weatherImpacts) : \A j \in 1..Len(weatherImpacts) :
        i < j => weatherImpacts[j].recorded_at - weatherImpacts[i].recorded_at >= Hour

\* t is a status the table allows after s
AllowedChange(s, t) ==
    /\ s.t = "string" /\ s.s \in StatusNames
    /\ t.t = "string" /\ t.s \in TransitionTable(s.s)

\* C26: when PUT status updates for the same shipment overlap, the stored
\* status still changes only along pairs allowed by the transition table; in
\* particular a shipment stored as arrived or cancelled is never afterwards
\* stored with a different status.
C26_StoredStatusFollowsTable ==
    [][shipment'.status # shipment.status => AllowedChange(shipment.status, shipment'.status)]_vars

---------------------------------------------------------------------------
(* Claims about the lifecycle as a whole                                   *)

\* no status object allows pending as the next status
NoStatusListsPending ==
    \A n \in StatusNames : ~canTransitionTo(createStatus(Str(n), NoReason), Str(pending))

\* a PUT step that asks for pending while another status is stored
PutAsksForPending ==
    /\ shipment.exists
    /\ shipment.status # Str(pending)
    /\ response'.op = "PUT"
    /\ response'.status = Str(pending)

Successors(n) ==
    {t \in StatusNames : canTransitionTo(createStatus(Str(n), NoReason), Str(t))}

\* the status names reachable from those of S in at most k allowed changes
RECURSIVE ReachableWithin(_, _)
ReachableWithin(S, k) ==
    IF k = 0 THEN S ELSE ReachableWithin(S \cup UNION {Successors(n) : n \in S}, k - 1)

TerminalNames == {arrived, cancelled}

\* every status that is not terminal has a path of allowed changes to a
\* terminal one
TerminalReachable ==
    \A n \in StatusNames \ TerminalNames :
        ReachableWithin({n}, Cardinality(StatusNames)) \cap TerminalNames # {}

AvoidsDelayed == \A i \in 1..Len(path) : path[i] # delayed

\* C28: every non-terminal status has a path of allowed transitions to a
\* terminal status; every cycle of allowed transitions passes through
\* delayed, so a sequence of accepted status changes that never enters
\* delayed has at most 3 changes, and after 3 changes it is terminal.
C28_LifecycleTerminates ==
    /\ TerminalReachable
    /\ \A i \in 1..Len(path) : \A j \in 1..Len(path) :
          (i < j /\ path[i] = path[j]) => \E k \in i..j : path[k] = delayed
    /\ (path # <<>> /\ AvoidsDelayed) =>
          /\ Len(path) - 1 <= 3
          /\ Len(path) - 1 = 3 => path[Len(path)] \in TerminalNames

\* the longest lifecycle that avoids delayed has been followed to its end
C28_Witness ==
    /\ path = <<pending, departed, in_transit, arrived>>
    /\ current = ArrivedStatus
    /\ accepted

---------------------------------------------------------------------------
(* Claims about tracking events and the stored status                      *)

LastEvent == events[Len(events)]

\* a request that was answered from the stored row and wrote what it had to
PutWithoutStatus ==
    /\ response'.op = "PUT" /\ response'.code = 200 /\ response'.status = Undefined

AssignOnNonPending ==
    /\ response'.op = "POST /assign" /\ response'.code = 200
    /\ shipment.status # Str(pending)

\* C29: after any sequence of non-overlapping requests on one shipment whose
\* database writes all succeed, the most recently inserted tracking event
\* has the shipment's stored status; a PUT without a status field and an
\* assign on a non-pending shipment insert no tracking event and leave the
\* status unchanged.
C29_LastEventIsStoredStatus ==
    /\ [](shipment.exists => (events # <<>> /\ LastEvent = shipment.status))
    /\ [][ (PutWithoutStatus \/ AssignOnNonPending)
             => (events' = events /\ shipment'.status = shipment.status) ]_vars

---------------------------------------------------------------------------
(* Claims about snow built from API data                                   *)

SnowFromApi == FromApi /\ weather.cls = "SnowWeather"

\* C30: for every condition code in 600..699 the Snow object built by
\* createFromApiData has intensity moderate (600..621) or heavy (622..699)
\* and accumulation 0; so a snow verdict built from API data never has
\* intensity light, never has impact low and never grounds flights.
C30_ApiSnowNeverLightNorGrounds ==
    /\ (FromApi /\ reading.weatherId \in {Num(c) : c \in 600..699}) =>
          /\ weather.cls = "SnowWeather"
          /\ weather.intensity =
                (IF reading.weatherId.n <= 621 THEN "moderate" ELSE "heavy")
          /\ weather.accumulation = 0
    /\ SnowFromApi =>
          /\ weather.intensity # "light"
          /\ verdict.type = "snow"
          /\ verdict.impact # "low"
          /\ ~verdict.shouldGround

\* heavy snow from the API: impact high, yet flights are not grounded
C30_Witness ==
    /\ SnowFromApi
    /\ reading.weatherId = Num(622)
    /\ weather.intensity = "heavy"
    /\ weather.accumulation = 0
    /\ verdict.impact = "high"
    /\ ~verdict.shouldGround

=============================================================================
